---- MODULE Spec2Model ----
(***************************************************************************)
(* SDL_FontCache: the glyph atlas cache (glyph map, shelf packer, cache    *)
(* levels, glyph provider, bulk preload) of one FC_Font, as a state        *)
(* machine.  One action per public operation; the helpers they call are    *)
(* operators over a call context  s = [f |-> the FC_Font, e |-> the        *)
(* environment's answers for this call, t |-> what the call did].          *)
(***************************************************************************)
EXTENDS Integers, Sequences, FiniteSets, TLC

----------------------------------------------------------------------------
(* Program constants *)

FC_CACHE_PADDING == 1
FC_DEFAULT_NUM_BUCKETS == 300
FC_LOAD_MAX_SURFACES == 10
InitialCacheSize == 3
LevelFactor == 12
DefaultTabWidth == 4

TAB == 9
SPACE == 32

(* Bounds of the model *)

\* texture creations the renderer may grant during one call
MaxTex == 12
\* FC_SetGlyphCacheLevel calls by the caller
MaxLevelSets == 1
\* FC_SetGlyphData calls by the caller
MaxGlyphSets == 1

----------------------------------------------------------------------------
(* Fixed-width integers *)

U16(n) == n % 65536

S16(n) == LET m == n % 65536 IN IF m >= 32768 THEN m - 65536 ELSE m

\* A Uint32 is held as the integer with the same 32 bits in two's complement:
\* a value v from 2^31 on stands as v - 2^32 (only the codepoints of 4-byte
\* characters are that large).  \div and % round down, so the bytes of the
\* value are read off both forms alike; the remainder of the value by m is
U32Mod(n, m) ==
    IF n >= 0 THEN n % m
    ELSE ((n % m) + (((65536 % m) * (65536 % m)) % m)) % m

----------------------------------------------------------------------------
(* Codepoint codec.  A string is the sequence of its bytes before the NUL. *)

ByteAt(str, i) == IF i <= Len(str) THEN str[i] ELSE 0

U8_charsize(str, i) ==
    LET b == ByteAt(str, i) IN
    IF b <= 127 THEN 1 ELSE IF b < 224 THEN 2 ELSE IF b < 240 THEN 3 ELSE 4

\* mutant: the codepoint is the Unicode number of the character, the marker
\* bits of the bytes left out
FC_GetCodepointFromUTF8_Number(str, i) ==
    LET b == ByteAt(str, i) IN
    IF b <= 127 THEN b
    ELSE IF b < 224 THEN (b % 32) * 64 + (ByteAt(str, i + 1) % 64)
    ELSE IF b < 240 THEN (b % 16) * 4096 + (ByteAt(str, i + 1) % 64) * 64
                         + (ByteAt(str, i + 2) % 64)
    ELSE (b % 8) * 262144 + (ByteAt(str, i + 1) % 64) * 4096
         + (ByteAt(str, i + 2) % 64) * 64 + (ByteAt(str, i + 3) % 64)

FC_GetCodepointFromUTF8(str, i) ==
    LET b == ByteAt(str, i) IN
    IF b <= 127 THEN b
    ELSE IF b < 224 THEN b * 256 + ByteAt(str, i + 1)
    ELSE IF b < 240 THEN b * 65536 + ByteAt(str, i + 1) * 256 + ByteAt(str, i + 2)
    ELSE (b - 256) * 16777216 + ByteAt(str, i + 1) * 65536 + ByteAt(str, i + 2) * 256
         + ByteAt(str, i + 3)

\* the bytes written before the first NUL (what a reader of the C string sees)
CStr(bytes) ==
    LET nul == {i \in 1..Len(bytes) : bytes[i] = 0} IN
    IF nul = {} THEN bytes
    ELSE SubSeq(bytes, 1, (CHOOSE i \in nul : \A j \in nul : i <= j) - 1)

\* mutant: all four bytes of the codepoint are written
FC_GetUTF8FromCodepoint_FourBytes(codepoint) ==
    CStr(<<(codepoint \div 16777216) % 256, (codepoint \div 65536) % 256,
           (codepoint \div 256) % 256, codepoint % 256>>)

FC_GetUTF8FromCodepoint(codepoint) ==
    LET a == (codepoint \div 16777216) % 256
        b == (codepoint \div 65536) % 256
        c == (codepoint \div 256) % 256
        d == codepoint % 256
    IN  CStr(IF a = 0
             THEN IF b = 0
                  THEN IF c = 0 THEN <<d>> ELSE <<c, d>>
                  ELSE <<b, c, d>>
             ELSE <<a, b, c, d>>)

----------------------------------------------------------------------------
(* Glyph data and the glyph map *)

FC_MakeGlyphData(cache_level, x, y, w, h) ==
    [cache_level |-> cache_level,
     rect |-> [x |-> S16(x), y |-> S16(y), w |-> U16(w), h |-> U16(h)]]

\* A map is [num_buckets, buckets]; buckets is a function from the indices of
\* the non-empty buckets to their chains (an index outside its domain is a
\* bucket holding nullptr).
FC_MapCreate(num_buckets) == [num_buckets |-> num_buckets, buckets |-> <<>>]

Bucket(map, index) ==
    IF index \in DOMAIN map.buckets THEN map.buckets[index] ELSE <<>>

\* mutant: the new node takes the place of the chain of its bucket
FC_MapInsert_Replace(map, codepoint, glyph) ==
    LET index == U32Mod(codepoint, map.num_buckets)
        node == [key |-> codepoint, value |-> glyph]
    IN  [map EXCEPT !.buckets =
            [i \in (DOMAIN @) \cup {index} |->
                IF i = index THEN <<node>> ELSE @[i]]]

FC_MapInsert(map, codepoint, glyph) ==
    LET index == U32Mod(codepoint, map.num_buckets)
        node == [key |-> codepoint, value |-> glyph]
    IN  [map EXCEPT !.buckets =
            [i \in (DOMAIN @) \cup {index} |->
                IF i = index THEN Append(Bucket(map, index), node) ELSE @[i]]]

\* mutant: the lookup walks the chain of the neighbouring bucket
FC_MapFindPos_WrongBucket(map, codepoint) ==
    LET chain == Bucket(map, U32Mod(codepoint + 1, map.num_buckets))
        hits == {i \in 1..Len(chain) : chain[i].key = codepoint}
    IN  IF hits = {} THEN 0 ELSE CHOOSE i \in hits : \A j \in hits : i <= j

\* mutant: the lookup returns the last node of the chain with the key
FC_MapFindPos_Last(map, codepoint) ==
    LET chain == Bucket(map, U32Mod(codepoint, map.num_buckets))
        hits == {i \in 1..Len(chain) : chain[i].key = codepoint}
    IN  IF hits = {} THEN 0 ELSE CHOOSE i \in hits : \A j \in hits : i >= j

\* position in its bucket chain of the node FC_MapFind returns, 0 for nullptr
FC_MapFindPos(map, codepoint) ==
    LET chain == Bucket(map, U32Mod(codepoint, map.num_buckets))
        hits == {i \in 1..Len(chain) : chain[i].key = codepoint}
    IN  IF hits = {} THEN 0 ELSE CHOOSE i \in hits : \A j \in hits : i <= j

FC_MapHas(map, codepoint) == FC_MapFindPos(map, codepoint) # 0

FC_MapFind(map, codepoint) ==
    Bucket(map, U32Mod(codepoint, map.num_buckets))[FC_MapFindPos(map, codepoint)].value

----------------------------------------------------------------------------
(* The external rasterizer (SDL_ttf).  A TTF_Font handle is 1 or 2, nullptr *)
(* is 0.  Font 1 is a tiny font (cache levels of 12 x 12 pixels, so that a   *)
(* few glyphs fill a level); font 2 has cache levels of 96 x 96 pixels.      *)

TTFs == {1, 2}

TTF_FontHeight(ttf) == IF ttf = 1 THEN 1 ELSE 8

TTF_FontAscent(ttf) == IF ttf = 1 THEN 1 ELSE 6

TTF_FontDescent(ttf) == IF ttf = 1 THEN 0 ELSE -2

\* a character both fonts lack
NoGlyphChar == <<195, 169>>

\* width of the surface TTF_RenderUTF8_Blended returns for this text, -1 for nullptr
TTF_RenderUTF8_Blended(ttf, text) ==
    IF text = <<>> \/ text = NoGlyphChar THEN -1
    ELSE IF text = <<SPACE>> THEN (IF ttf = 1 THEN 2 ELSE 4)
    ELSE IF text = <<TAB>> THEN (IF ttf = 1 THEN 1 ELSE 3)
    ELSE IF text = <<67>> THEN (IF ttf = 1 THEN 12 ELSE 90)
    ELSE IF ttf = 1 THEN 5 ELSE 10

----------------------------------------------------------------------------
(* Textures and the cache-level array.  A slot of glyph_cache holds a       *)
(* texture or was never written; reading a slot that was never written (or   *)
(* one past the array) yields the garbage pointer the environment chose.     *)

NullTex == [kind |-> "null", w |-> 0, h |-> 0]

Uninit == [kind |-> "uninit", w |-> 0, h |-> 0]

Tex(w, h) == [kind |-> "tex", w |-> w, h |-> h]

Wild(w, h) == [kind |-> "wild", w |-> w, h |-> h]

SlotInstalled(f, i) ==
    i >= 0 /\ i < f.glyph_cache_size /\ f.glyph_cache[i + 1].kind = "tex"

SlotRead(s, i) == IF SlotInstalled(s.f, i) THEN s.f.glyph_cache[i + 1] ELSE s.e.garbage

FC_GetGlyphCacheLevel(s, cache_level) ==
    IF cache_level < 0 \/ cache_level > s.f.glyph_cache_count
    THEN [tex |-> NullTex, ub |-> FALSE]
    ELSE [tex |-> SlotRead(s, cache_level), ub |-> ~SlotInstalled(s.f, cache_level)]

FC_SetGlyphCacheLevel(f, cache_level, cache_texture) ==
    IF cache_level < 0 THEN [f |-> f, ok |-> FALSE, ub |-> FALSE]
    ELSE IF cache_level > f.glyph_cache_count + 1 THEN [f |-> f, ok |-> FALSE, ub |-> FALSE]
    ELSE
      LET grown == cache_level = f.glyph_cache_count
          count1 == IF grown THEN f.glyph_cache_count + 1 ELSE f.glyph_cache_count
          realloc == grown /\ count1 > f.glyph_cache_size
          f1 == [f EXCEPT !.glyph_cache_count = count1,
                          !.glyph_cache_size = IF realloc THEN count1 ELSE @,
                          !.glyph_cache = IF realloc
                                          THEN [i \in 1..count1 |->
                                                  IF i <= f.glyph_cache_size
                                                  THEN f.glyph_cache[i] ELSE Uninit]
                                          ELSE @]
      IN  IF cache_level < f1.glyph_cache_size
          THEN [f |-> [f1 EXCEPT !.glyph_cache[cache_level + 1] = cache_texture],
                ok |-> TRUE, ub |-> FALSE]
          ELSE [f |-> f1, ok |-> TRUE, ub |-> TRUE]

----------------------------------------------------------------------------
(* The renderer.  Of its state the model keeps the current render target    *)
(* (NullTex for the default target), the clip, and the clip SDL keeps aside  *)
(* for the default target while a texture is the target; the render scale    *)
(* is 1.  The state is the field ren of the trace, and every call of         *)
(* set_clip and SDL_SetRenderTarget is logged (history).                     *)

NoRect == [x |-> 0, y |-> 0, w |-> 0, h |-> 0]

\* no clip (SDL_RenderSetClipRect with a null rectangle), and a clip
NoClip == [enabled |-> FALSE, rect |-> NoRect]

Clip(rect) == [enabled |-> TRUE, rect |-> rect]

\* the renderer of a program that never set a target or a clip
DefaultRenderer == [target |-> NullTex, clip |-> NoClip, backup |-> NoClip]

has_clip(s) == s.t.ren.clip.enabled

get_clip(s) == s.t.ren.clip.rect

set_clip(s, clip) == [s EXCEPT !.t.ren.clip = clip, !.t.clips = Append(@, clip)]

SDL_GetRenderTarget(s) == s.t.ren.target

\* SDL_SetRenderTarget: a texture as target starts without clip, the clip of
\* the default target is put aside when the target leaves it and comes back
\* with it; the clip of a texture that stops being the target is lost
SDL_SetRenderTarget(s, texture) ==
    IF texture = s.t.ren.target
    THEN [s EXCEPT !.t.targets = Append(@, texture)]
    ELSE IF texture.kind = "null"
    THEN [s EXCEPT !.t.ren = [target |-> texture, clip |-> @.backup, backup |-> @.backup],
                   !.t.targets = Append(@, texture)]
    ELSE [s EXCEPT !.t.ren = [target |-> texture, clip |-> NoClip,
                              backup |-> IF @.target.kind = "null" THEN @.clip
                                         ELSE @.backup],
                   !.t.targets = Append(@, texture)]

\* mutant: the target is left on the texture that was drawn to
RenderToTexture_NoRestore(s, texture) == SDL_SetRenderTarget(s, texture)

\* the part FC_GrowGlyphCache, FC_UploadGlyphCache and FC_AddGlyphToCache
\* share: the target and, when there was a target, the clip are read, the
\* texture is made the target and drawn to, the target is set back and,
\* when there was a target, the clip is set again
RenderToTexture(s, texture) ==
    CHOOSE ret \in
      {IF s.t.ren.target.kind # "null" /\ has_clip(s)
       THEN set_clip(s2, Clip(get_clip(s))) ELSE s2 :
         s2 \in {SDL_SetRenderTarget(s1, SDL_GetRenderTarget(s)) :
                   s1 \in {SDL_SetRenderTarget(s, texture)}}} : TRUE

----------------------------------------------------------------------------
(* Creating and installing cache levels *)

\* SDL_CreateTexture: succeeds while the renderer still grants textures
SDL_CreateTexture(s, w, h) ==
    IF s.e.texAvail > 0 /\ w > 0 /\ h > 0
    THEN [s |-> [s EXCEPT !.e.texAvail = @ - 1], tex |-> Tex(w, h)]
    ELSE [s |-> s, tex |-> NullTex]

\* a created texture c.tex installed as level cache_level of the font of c.s
InstallLevel(c, cache_level) ==
    IF c.tex.kind = "null" THEN [s |-> c.s, ok |-> FALSE]
    ELSE CHOOSE ret \in
           {IF ~set.ok THEN [s |-> c.s, ok |-> FALSE]
            ELSE [s |-> [c.s EXCEPT !.f = set.f, !.t.ub = @ \/ set.ub], ok |-> TRUE] :
              set \in {FC_SetGlyphCacheLevel(c.s.f, cache_level, c.tex)}} : TRUE

\* Colours.  The colour modulation of the texture of a cache level is state
\* of the renderer: the field mods of the trace holds, for the levels whose
\* modulation was set during the call, the colour it was set to.
Black == "black"

Colors == {"black", "white", "red"}

\* the colour the loads are given
LoadColor == Black

\* the colour modulation of a level, Unset when the call has not set it
Unset == "unset"

LevelMod(s, cache_level) ==
    IF cache_level + 1 \in DOMAIN s.t.mods THEN s.t.mods[cache_level + 1] ELSE Unset

\* set_color on the texture of level cache_level
set_color(s, cache_level, color) ==
    [s EXCEPT !.t.mods =
        [k \in 1 .. (IF Len(@) > cache_level + 1 THEN Len(@) ELSE cache_level + 1) |->
            IF k = cache_level + 1 THEN color
            ELSE IF k \in DOMAIN @ THEN @[k] ELSE Unset]]

set_color_for_all_caches(s, color) ==
    [s EXCEPT !.t.mods =
        [k \in 1 .. (IF Len(@) > s.f.glyph_cache_count THEN Len(@)
                     ELSE s.f.glyph_cache_count) |->
            IF k <= s.f.glyph_cache_count THEN color ELSE @[k]]]

\* FC_GrowGlyphCache, what is done to the level that was installed: it gets
\* the default colour of the font and is cleared; i is the result [s, ok] of
\* the installation
ClearLevel(i, texture) ==
    IF i.ok
    THEN [i EXCEPT !.s = RenderToTexture(
                            set_color(i.s, i.s.f.glyph_cache_count - 1,
                                      i.s.f.default_color), texture)]
    ELSE i

\* what one FC_GrowGlyphCache call did (history): whether the texture was
\* created, the result, and the number of levels before and after
GrowLogEntry(s, c, r) ==
    [created |-> c.tex.kind # "null", ok |-> r.ok,
     pre |-> s.f.glyph_cache_count, post |-> r.s.f.glyph_cache_count]

\* mutant: growth that starts the glyph map afresh, as a repack would
FC_GrowGlyphCache_Repack(s) ==
    CHOOSE ret \in UNION
      {{[r EXCEPT !.s.t.growLog = Append(@, GrowLogEntry(s, c, r)),
                  !.s.f.glyphs = IF r.ok THEN FC_MapCreate(@.num_buckets) ELSE @] :
          r \in {ClearLevel(i, c.tex) : i \in {InstallLevel(c, c.s.f.glyph_cache_count)}}} :
         c \in {SDL_CreateTexture(s, s.f.height * LevelFactor,
                                  s.f.height * LevelFactor)}} : TRUE

FC_GrowGlyphCache(s) ==
    CHOOSE ret \in UNION
      {{[r EXCEPT !.s.t.growLog = Append(@, GrowLogEntry(s, c, r))] :
          r \in {ClearLevel(i, c.tex) : i \in {InstallLevel(c, c.s.f.glyph_cache_count)}}} :
         c \in {SDL_CreateTexture(s, s.f.height * LevelFactor,
                                  s.f.height * LevelFactor)}} : TRUE

\* (the renderer supports render targets; the texture is drawn to before it
\* is looked at: when it could not be created the target it is set to is the
\* default one)
FC_UploadGlyphCache(s, cache_level, w, h) ==
    CHOOSE ret \in
      {InstallLevel(c1, cache_level) :
         c1 \in {[c EXCEPT !.s = RenderToTexture(c.s, c.tex)] :
                   c \in {SDL_CreateTexture(s, w, h)}}} : TRUE

FC_AddGlyphToCache(s) ==
    CHOOSE ret \in
      {IF dest.tex.kind = "null"
       THEN [s |-> [s EXCEPT !.t.ub = @ \/ dest.ub], ok |-> FALSE]
       ELSE [s |-> [RenderToTexture(s, dest.tex) EXCEPT
                             !.t.ub = @ \/ dest.ub,
                             !.t.uploads =
                                Append(@, [cache_level |-> s.f.last_glyph.cache_level,
                                           rect |-> s.f.last_glyph.rect,
                                           wild |-> dest.ub])],
             ok |-> TRUE] :
         dest \in {FC_GetGlyphCacheLevel(s, s.f.last_glyph.cache_level)}} : TRUE

----------------------------------------------------------------------------
(* State *)

VARIABLES
    font,           \* the fields of the FC_Font object
    fc_tab_width,   \* the global width of a TAB in spaces
    packed,         \* history: the nodes FC_PackGlyphData inserted since FC_Init
    call,           \* history: the last operation, its inputs, result and trace
    budget          \* bound counters: calls of FC_SetGlyphCacheLevel

vars == <<font, fc_tab_width, packed, call, budget>>

----------------------------------------------------------------------------
(* Atlas packer and glyph provider *)

NoGlyph == FC_MakeGlyphData(0, 0, 0, 0, 0)

\* mutant: the next space starts one padding behind the last glyph, without
\* the extra pixel
PlaceGlyph_NoGap(s, lg, codepoint, width) ==
    LET cur == [lg EXCEPT !.rect.x = @ + lg.rect.w + FC_CACHE_PADDING,
                          !.rect.w = width]
    IN  CHOOSE ret \in
          {[s |-> [s EXCEPT !.f.last_glyph = cur,
                            !.f.glyphs = FC_MapInsert(@, codepoint, glyph),
                            !.t.packed = Append(@, [key |-> codepoint, value |-> glyph])],
            ok |-> TRUE, glyph |-> glyph] :
             glyph \in {FC_MakeGlyphData(cur.cache_level, cur.rect.x, cur.rect.y,
                                         cur.rect.w, cur.rect.h)}} : TRUE

\* FC_PackGlyphData, the last three statements: move to the next space and
\* record; lg is the cursor they start from
PlaceGlyph(s, lg, codepoint, width) ==
    LET cur == [lg EXCEPT !.rect.x = @ + lg.rect.w + 1 + FC_CACHE_PADDING,
                          !.rect.w = width]
    IN  CHOOSE ret \in
          {[s |-> [s EXCEPT !.f.last_glyph = cur,
                            !.f.glyphs = FC_MapInsert(@, codepoint, glyph),
                            !.t.packed = Append(@, [key |-> codepoint, value |-> glyph])],
            ok |-> TRUE, glyph |-> glyph] :
             glyph \in {FC_MakeGlyphData(cur.cache_level, cur.rect.x, cur.rect.y,
                                         cur.rect.w, cur.rect.h)}} : TRUE

\* mutant: a new row starts one font height below, without the padding
PackAt_RowPitch(s, codepoint, width, maxWidth, maxHeight) ==
    LET height == U16(s.f.height + FC_CACHE_PADDING)
        lg == s.f.last_glyph
    IN  IF lg.rect.x + lg.rect.w + width >= maxWidth - FC_CACHE_PADDING
        THEN IF lg.rect.y + height + height >= maxHeight - FC_CACHE_PADDING
             THEN [s |-> [s EXCEPT !.f.last_glyph =
                              [cache_level |-> s.f.glyph_cache_count,
                               rect |-> [x |-> FC_CACHE_PADDING, y |-> FC_CACHE_PADDING,
                                         w |-> 0, h |-> lg.rect.h]]],
                   ok |-> FALSE, glyph |-> NoGlyph]
             ELSE PlaceGlyph(s, [lg EXCEPT !.rect.x = FC_CACHE_PADDING,
                                           !.rect.y = @ + s.f.height,
                                           !.rect.w = 0],
                             codepoint, width)
        ELSE PlaceGlyph(s, lg, codepoint, width)

\* FC_PackGlyphData after the TAB special case: place a glyph of this width
\* in the current row, in the next row, or give up on this level
PackAt(s, codepoint, width, maxWidth, maxHeight) ==
    LET height == U16(s.f.height + FC_CACHE_PADDING)
        lg == s.f.last_glyph
    IN  IF lg.rect.x + lg.rect.w + width >= maxWidth - FC_CACHE_PADDING
        THEN IF lg.rect.y + height + height >= maxHeight - FC_CACHE_PADDING
             THEN \* get ready to pack on the next cache level
                  [s |-> [s EXCEPT !.f.last_glyph =
                              [cache_level |-> s.f.glyph_cache_count,
                               rect |-> [x |-> FC_CACHE_PADDING, y |-> FC_CACHE_PADDING,
                                         w |-> 0, h |-> lg.rect.h]]],
                   ok |-> FALSE, glyph |-> NoGlyph]
             ELSE \* go to next row
                  PlaceGlyph(s, [lg EXCEPT !.rect.x = FC_CACHE_PADDING,
                                           !.rect.y = @ + height,
                                           !.rect.w = 0],
                             codepoint, width)
        ELSE PlaceGlyph(s, lg, codepoint, width)

\* what one FC_PackGlyphData call saw and did (history): the font on entry
\* (pre), the cursor the placement started from (at), the font on return (post)
PackLogEntry(s0, s, r, codepoint, width, maxWidth, maxHeight) ==
    [codepoint |-> codepoint, width |-> width,
     maxWidth |-> maxWidth, maxHeight |-> maxHeight,
     height |-> s0.f.height,
     spaceCached |-> FC_MapHas(s0.f.glyphs, SPACE),
     pre |-> [last_glyph |-> s0.f.last_glyph, count |-> s0.f.glyph_cache_count],
     at |-> s.f.last_glyph,
     post |-> [last_glyph |-> r.s.f.last_glyph, count |-> r.s.f.glyph_cache_count],
     mapSame |-> r.s.f.glyphs = s0.f.glyphs,
     ok |-> r.ok, glyph |-> r.glyph]

RECURSIVE FC_PackGlyphData(_, _, _, _, _)
RECURSIVE FC_GetGlyphData(_, _)

\* FC_PackGlyphData, the TAB special case: the context and the width the
\* placement goes on with
TabWidth(s0, codepoint, width0) ==
    IF codepoint # TAB THEN [s |-> s0, width |-> width0]
    ELSE CHOOSE ret \in
           {[s |-> [sp.s EXCEPT !.t.ub = @ \/ ~sp.ok],
             width |-> U16(fc_tab_width
                           * (IF sp.ok THEN sp.glyph.rect.w ELSE s0.e.garbW))] :
              sp \in {FC_GetGlyphData(s0, SPACE)}} : TRUE

FC_PackGlyphData(s0, codepoint, width0, maxWidth, maxHeight) ==
    CHOOSE ret \in UNION
      {{[r EXCEPT !.s.t.packLog =
            Append(@, PackLogEntry(s0, in.s, r, codepoint, in.width, maxWidth, maxHeight))] :
          r \in {PackAt([in.s EXCEPT !.t.nPack = @ + 1], codepoint, in.width,
                        maxWidth, maxHeight)}} :
         in \in {TabWidth(s0, codepoint, width0)}} : TRUE

\* FC_GetGlyphData, the second attempt: grow the cache (the result of the
\* growth is not looked at) and try packing again
PackRetry(s, codepoint, width, w, h) ==
    CHOOSE ret \in
      {FC_PackGlyphData(g.s, codepoint, width, w, h) : g \in {FC_GrowGlyphCache(s)}} : TRUE

\* FC_GetGlyphData from the first pack attempt on; s is the context after the
\* glyph was rendered, w and h the size queried from the cursor's cache level
PackRendered(s, codepoint, width, w, h) ==
    CHOOSE ret \in UNION
      {{IF ~p.ok THEN [s |-> p.s, ok |-> FALSE, glyph |-> NoGlyph]
        ELSE [s |-> FC_AddGlyphToCache(p.s).s, ok |-> TRUE, glyph |-> p.glyph] :
          p \in {IF p1.ok THEN p1 ELSE PackRetry(p1.s, codepoint, width, w, h)}} :
         p1 \in {FC_PackGlyphData(s, codepoint, width, w, h)}} : TRUE

\* mutant: the provider goes on to pack without looking at what the
\* rasterizer returned
FC_GetGlyphData_NoSurfCheck(s, codepoint) ==
    IF FC_MapHas(s.f.glyphs, codepoint)
    THEN [s |-> s, ok |-> TRUE, glyph |-> FC_MapFind(s.f.glyphs, codepoint)]
    ELSE IF s.f.ttf_source = 0
    THEN [s |-> s, ok |-> FALSE, glyph |-> NoGlyph]
    ELSE
      LET buff == FC_GetUTF8FromCodepoint(codepoint)
          surf == TTF_RenderUTF8_Blended(s.f.ttf_source, buff)
      IN  CHOOSE ret \in
            {IF cache_image.tex.kind = "null"
             THEN [s |-> [s EXCEPT !.t.ub = @ \/ cache_image.ub],
                   ok |-> FALSE, glyph |-> NoGlyph]
             ELSE PackRendered([s EXCEPT !.t.ub = @ \/ cache_image.ub,
                                         !.t.nRaster = @ + 1],
                               codepoint, U16(surf),
                               U16(cache_image.tex.w), U16(cache_image.tex.h)) :
               cache_image \in {FC_GetGlyphCacheLevel(s, s.f.last_glyph.cache_level)}} : TRUE

\* mutant: the lookup that has just cached a glyph reports that there is none
FC_GetGlyphData_MissAfterCaching(s, codepoint) ==
    IF FC_MapHas(s.f.glyphs, codepoint)
    THEN [s |-> s, ok |-> TRUE, glyph |-> FC_MapFind(s.f.glyphs, codepoint)]
    ELSE IF s.f.ttf_source = 0
    THEN [s |-> s, ok |-> FALSE, glyph |-> NoGlyph]
    ELSE
      LET buff == FC_GetUTF8FromCodepoint(codepoint)
          surf == TTF_RenderUTF8_Blended(s.f.ttf_source, buff)
      IN  CHOOSE ret \in UNION
            {IF cache_image.tex.kind = "null"
             THEN {[s |-> [s EXCEPT !.t.ub = @ \/ cache_image.ub],
                    ok |-> FALSE, glyph |-> NoGlyph]}
             ELSE IF surf < 0
             THEN {[s |-> [s EXCEPT !.t.ub = @ \/ cache_image.ub, !.t.nRaster = @ + 1],
                    ok |-> FALSE, glyph |-> NoGlyph]}
             ELSE {[s |-> p.s, ok |-> FALSE, glyph |-> NoGlyph] :
                     p \in {PackRendered([s EXCEPT !.t.ub = @ \/ cache_image.ub,
                                                   !.t.nRaster = @ + 1],
                                         codepoint, surf,
                                         U16(cache_image.tex.w), U16(cache_image.tex.h))}} :
               cache_image \in {FC_GetGlyphCacheLevel(s, s.f.last_glyph.cache_level)}} : TRUE

FC_GetGlyphData(s, codepoint) ==
    IF FC_MapHas(s.f.glyphs, codepoint)
    THEN [s |-> s, ok |-> TRUE, glyph |-> FC_MapFind(s.f.glyphs, codepoint)]
    ELSE IF s.f.ttf_source = 0
    THEN [s |-> s, ok |-> FALSE, glyph |-> NoGlyph]
    ELSE
      LET buff == FC_GetUTF8FromCodepoint(codepoint)
          surf == TTF_RenderUTF8_Blended(s.f.ttf_source, buff)
      IN  CHOOSE ret \in
            {IF cache_image.tex.kind = "null"
             THEN [s |-> [s EXCEPT !.t.ub = @ \/ cache_image.ub],
                   ok |-> FALSE, glyph |-> NoGlyph]
             ELSE IF surf < 0
             THEN [s |-> [s EXCEPT !.t.ub = @ \/ cache_image.ub, !.t.nRaster = @ + 1],
                   ok |-> FALSE, glyph |-> NoGlyph]
             ELSE PackRendered([s EXCEPT !.t.ub = @ \/ cache_image.ub,
                                         !.t.nRaster = @ + 1],
                               codepoint, surf,
                               U16(cache_image.tex.w), U16(cache_image.tex.h)) :
               cache_image \in {FC_GetGlyphCacheLevel(s, s.f.last_glyph.cache_level)}} : TRUE

----------------------------------------------------------------------------
(* Font lifecycle *)

FC_GetStringASCII == [i \in 1..95 |-> 31 + i]

FC_Init(f) ==
    [f EXCEPT !.ttf_source = 0,
              !.owns_ttf_source = 0,
              !.height = 0,
              !.ascent = 0,
              !.descent = 0,
              !.baseline = 0,
              !.lineSpacing = 0,
              !.letterSpacing = 0,
              !.last_glyph = [cache_level |-> 0,
                              rect |-> [x |-> FC_CACHE_PADDING, y |-> FC_CACHE_PADDING,
                                        w |-> 0, h |-> 0]],
              !.default_color = Black,
              !.glyphs = FC_MapCreate(FC_DEFAULT_NUM_BUCKETS),
              !.glyph_cache_size = InitialCacheSize,
              !.glyph_cache_count = 0,
              !.glyph_cache = [i \in 1..InitialCacheSize |-> Uninit]]

FC_CreateFont ==
    FC_Init([ttf_source |-> 0, owns_ttf_source |-> 0, height |-> 0, ascent |-> 0,
             descent |-> 0, baseline |-> 0, lineSpacing |-> 0, letterSpacing |-> 0,
             last_glyph |-> NoGlyph, default_color |-> Black,
             glyphs |-> FC_MapCreate(0), glyph_cache_size |-> 0, glyph_cache_count |-> 0,
             glyph_cache |-> <<>>, loading_string |-> FC_GetStringASCII])

\* mutant: the glyph map is kept
FC_ClearFont_KeepGlyphs(f) == [FC_Init(f) EXCEPT !.glyphs = f.glyphs]

FC_ClearFont(f) == FC_Init(f)

FC_SetGlyphData(f, codepoint, glyph_data) ==
    [f EXCEPT !.glyphs = FC_MapInsert(@, codepoint, glyph_data)]

\* the blit of the glyph just packed onto surface number n - 1 (history)
Blit(s, n) ==
    [s EXCEPT !.t.blits = Append(@, [surface |-> n - 1,
                                     cache_level |-> s.f.last_glyph.cache_level,
                                     rect |-> s.f.last_glyph.rect])]

\* mutant: the glyph that did not fit is not packed again on the new surface
LoadNextSurface_NoRepack(l, s, codepoint, width, size) ==
    LET i == l.num_surfaces - 1
        wh == l.s.f.height * LevelFactor
    IN  CHOOSE ret \in
          {[s |-> [up.s EXCEPT !.t.ub = @ \/ ~SlotInstalled(up.s.f, i),
                               !.f.last_glyph.cache_level = l.num_surfaces],
            pos |-> l.pos + size, num_surfaces |-> l.num_surfaces + 1,
            done |-> FALSE] :
             up \in {FC_UploadGlyphCache(s, i, wh, wh)}} : TRUE

\* the preload loop after a failed pack with surfaces to spare: upload the
\* full surface, move the cursor to the new level, pack there and blit
LoadNextSurface(l, s, codepoint, width, size) ==
    LET i == l.num_surfaces - 1
        wh == l.s.f.height * LevelFactor
    IN  CHOOSE ret \in UNION
          {{[s |-> IF p2.ok THEN Blit(p2.s, l.num_surfaces + 1) ELSE p2.s,
             pos |-> l.pos + size, num_surfaces |-> l.num_surfaces + 1,
             done |-> FALSE] :
              p2 \in {FC_PackGlyphData(
                         [up.s EXCEPT !.t.ub = @ \/ ~SlotInstalled(up.s.f, i),
                                      !.f.last_glyph.cache_level = l.num_surfaces],
                         codepoint, width, U16(wh), U16(wh))}} :
             up \in {FC_UploadGlyphCache(s, i, wh, wh)}} : TRUE

\* mutant: the preload goes on to a further surface however many it has
LoadStep_NoLimit(l) ==
    LET str == l.s.f.loading_string
        size == U8_charsize(str, l.pos)
        buff == CStr([i \in 1..size |-> ByteAt(str, l.pos + i - 1)])
        surf == TTF_RenderUTF8_Blended(l.s.f.ttf_source, buff)
        codepoint == FC_GetCodepointFromUTF8(buff, 1)
        wh == U16(l.s.f.height * LevelFactor)
    IN  IF l.done \/ ByteAt(str, l.pos) = 0 THEN [l EXCEPT !.done = TRUE]
        ELSE IF surf < 0 THEN [l EXCEPT !.s.t.nRaster = @ + 1, !.pos = @ + size]
        ELSE CHOOSE ret \in
               {IF p1.ok
                THEN [l EXCEPT !.s = Blit(p1.s, l.num_surfaces), !.pos = @ + size]
                ELSE LoadNextSurface(l, p1.s, codepoint, U16(surf), size) :
                  p1 \in {FC_PackGlyphData([l.s EXCEPT !.t.nRaster = @ + 1],
                                           codepoint, U16(surf), wh, wh)}} : TRUE

\* one iteration of the preload loop of FC_LoadFontFromTTF; l is the loop
\* state [s, pos, num_surfaces, done], pos the byte the iteration starts at
LoadStep(l) ==
    LET str == l.s.f.loading_string
        size == U8_charsize(str, l.pos)
        buff == CStr([i \in 1..size |-> ByteAt(str, l.pos + i - 1)])
        surf == TTF_RenderUTF8_Blended(l.s.f.ttf_source, buff)
        codepoint == FC_GetCodepointFromUTF8(buff, 1)
        wh == U16(l.s.f.height * LevelFactor)
    IN  IF l.done \/ ByteAt(str, l.pos) = 0 THEN [l EXCEPT !.done = TRUE]
        ELSE IF surf < 0 THEN [l EXCEPT !.s.t.nRaster = @ + 1, !.pos = @ + size]
        ELSE CHOOSE ret \in
               {IF p1.ok
                THEN [l EXCEPT !.s = Blit(p1.s, l.num_surfaces), !.pos = @ + size]
                ELSE IF l.num_surfaces >= FC_LOAD_MAX_SURFACES
                THEN [l EXCEPT !.s = [p1.s EXCEPT !.t.hitLimit = TRUE], !.done = TRUE]
                ELSE LoadNextSurface(l, p1.s, codepoint, U16(surf), size) :
                  p1 \in {FC_PackGlyphData([l.s EXCEPT !.t.nRaster = @ + 1],
                                           codepoint, U16(surf), wh, wh)}} : TRUE

\* the preload loop: at most n iterations from loop state l
RECURSIVE LoadLoop(_, _)
LoadLoop(l, n) ==
    IF n = 0 THEN l
    ELSE IF n = 1 THEN LoadStep(l)
    ELSE CHOOSE ret \in
           {IF half.done THEN half ELSE LoadLoop(half, n - (n \div 2)) :
              half \in {LoadLoop(l, n \div 2)}} : TRUE

\* FC_LoadFontFromTTF from the preload loop on; f1 is the font with its
\* metrics and the starting cursor set
Preload(s, f1) ==
    CHOOSE ret \in UNION
      {{[up.s EXCEPT !.t.ub = @ \/ ~SlotInstalled(up.s.f, l.num_surfaces - 1)] :
          up \in {FC_UploadGlyphCache(l.s, l.num_surfaces - 1,
                                      f1.height * LevelFactor,
                                      f1.height * LevelFactor)}} :
         l \in {LoadLoop([s |-> [s EXCEPT !.f = f1], pos |-> 1, num_surfaces |-> 1,
                          done |-> FALSE], Len(f1.loading_string) + 1)}} : TRUE

FC_LoadFontFromTTF(s, ttf) ==
    LET h0 == TTF_FontHeight(ttf)
        ascent == TTF_FontAscent(ttf)
        descent == 0 - TTF_FontDescent(ttf)
        height == IF h0 < ascent - descent THEN U16(ascent - descent) ELSE h0
    IN  CHOOSE ret \in
          {Preload(s, f1) :
             f1 \in {[FC_ClearFont(s.f) EXCEPT
                        !.ttf_source = ttf,
                        !.default_color = LoadColor,
                        !.height = height,
                        !.ascent = ascent,
                        !.descent = descent,
                        !.baseline = U16(height - descent),
                        !.last_glyph.rect = [x |-> FC_CACHE_PADDING,
                                             y |-> FC_CACHE_PADDING,
                                             w |-> 0, h |-> height]]}} : TRUE

----------------------------------------------------------------------------
(* Text: measuring, drawing and wrapping.  A text is the sequence of its     *)
(* bytes before the NUL; a position c is the index of a byte, and reading    *)
(* the byte behind the last one reads the NUL.                               *)

fc_buffer_size == 1024

NEWLINE == 10

FC_MIN(a, b) == IF a < b THEN a ELSE b

FC_MAX(a, b) == IF a > b THEN a ELSE b

\* the shared buffer after vsnprintf of the text with the format "%s"
FC_EXTRACT_VARARGS(text) == SubSeq(text, 1, FC_MIN(Len(text), fc_buffer_size - 1))

\* the lookup FC_GetWidth and FC_RenderLeft make for one character: the glyph
\* of the codepoint or, when there is none, the glyph of the space
GlyphOrSpace(s, codepoint) ==
    CHOOSE ret \in UNION
      {{[s |-> r2.s, ok |-> r1.ok, spaceOk |-> r2.ok,
         glyph |-> IF r1.ok THEN r1.glyph ELSE r2.glyph] :
          r2 \in {IF r1.ok THEN r1 ELSE FC_GetGlyphData(r1.s, SPACE)}} :
         r1 \in {FC_GetGlyphData(s, codepoint)}} : TRUE

\* what was done for the character at position c (history)
CharLogEntry(fn, c, codepoint, g, adv, drawn) ==
    [fn |-> fn, pos |-> c, codepoint |-> codepoint, ok |-> g.ok, spaceOk |-> g.spaceOk,
     w |-> g.glyph.rect.w, adv |-> adv, drawn |-> drawn]

\* FC_GetWidth, the loop from position c on
RECURSIVE WidthFrom(_, _, _, _, _)
WidthFrom(s, buf, c, width, bigWidth) ==
    IF ByteAt(buf, c) = 0
    THEN [s |-> [s EXCEPT !.t.ub = @ \/ c > Len(buf) + 1],
          width |-> IF bigWidth >= width THEN bigWidth ELSE width]
    ELSE IF ByteAt(buf, c) = NEWLINE
    THEN WidthFrom(s, buf, c + 1, 0, IF bigWidth >= width THEN bigWidth ELSE width)
    ELSE CHOOSE ret \in UNION
           {{WidthFrom([g.s EXCEPT !.t.chars =
                           Append(@, CharLogEntry("FC_GetWidth", c,
                                                  FC_GetCodepointFromUTF8(buf, c), g,
                                                  adv, FALSE))],
                       buf, c + U8_charsize(buf, c), U16(width + adv), bigWidth) :
               adv \in {IF g.ok \/ g.spaceOk THEN g.glyph.rect.w ELSE 0}} :
              g \in {GlyphOrSpace(s, FC_GetCodepointFromUTF8(buf, c))}} : TRUE

FC_GetWidth(s, text) == WidthFrom(s, FC_EXTRACT_VARARGS(text), 1, 0, 0)

SDL_RectUnion(A, B) ==
    LET x == FC_MIN(A.x, B.x)
        y == FC_MIN(A.y, B.y)
        x2 == FC_MAX(A.x + A.w, B.x + B.w)
        y2 == FC_MAX(A.y + A.h, B.y + B.h)
    IN  [x |-> x, y |-> y, w |-> FC_MAX(0, x2 - x), h |-> FC_MAX(0, y2 - y)]

\* the rectangle the default render callback returns for a glyph drawn at x, y
FC_DefaultRenderCallback(srcrect, x, y, xscale, yscale) ==
    [x |-> x, y |-> y, w |-> srcrect.w * xscale, h |-> srcrect.h * yscale]

\* the destination rectangle the default render callback hands to
\* SDL_RenderCopyEx for a glyph drawn at x, y: negative scales flip, the
\* rectangle keeps its corner
RenderCopyRect(srcrect, x, y, xscale, yscale) ==
    [x |-> x, y |-> y,
     w |-> (IF xscale < 0 THEN -xscale ELSE xscale) * srcrect.w,
     h |-> (IF yscale < 0 THEN -yscale ELSE yscale) * srcrect.h]

\* FC_RenderLeft, the draw of a glyph that was found: r is the loop state
\* [s, destX, destY, dirtyRect], g the glyph lookup made in context r.s
DrawGlyph(r, c, codepoint, g, scale) ==
    CHOOSE ret \in UNION
      {{[s |-> [g.s EXCEPT
                  !.t.ub = @ \/ src.ub,
                  !.t.draws = Append(@, [codepoint |-> codepoint, src |-> src.tex,
                                         cache_level |-> g.glyph.cache_level,
                                         srcRect |-> g.glyph.rect, dstRect |-> dstRect,
                                         clip |-> g.s.t.ren.clip,
                                         mod |-> LevelMod(g.s, g.glyph.cache_level),
                                         dr |-> RenderCopyRect(g.glyph.rect, r.destX,
                                                               r.destY, scale.x, scale.y)]),
                  !.t.chars = Append(@, CharLogEntry("FC_RenderLeft", c, codepoint, g,
                                        g.glyph.rect.w * scale.x + g.s.f.letterSpacing * scale.x,
                                        TRUE))],
         destX |-> r.destX + g.glyph.rect.w * scale.x + g.s.f.letterSpacing * scale.x,
         destY |-> r.destY,
         dirtyRect |-> IF r.dirtyRect.w = 0 \/ r.dirtyRect.h = 0 THEN dstRect
                       ELSE SDL_RectUnion(r.dirtyRect, dstRect)] :
          dstRect \in {FC_DefaultRenderCallback(g.glyph.rect, r.destX, r.destY,
                                                scale.x, scale.y)}} :
         src \in {FC_GetGlyphCacheLevel(g.s, g.glyph.cache_level)}} : TRUE

\* mutant: a character without glyph is skipped, the space is not tried
RenderChar_NoFallback(r, c, codepoint, scale) ==
    CHOOSE ret \in
      {IF ~g.ok
       THEN [r EXCEPT !.s = [g.s EXCEPT !.t.chars =
                               Append(@, CharLogEntry("FC_RenderLeft", c, codepoint, g,
                                                      0, FALSE))]]
       ELSE IF codepoint = SPACE
       THEN [r EXCEPT
               !.s = [g.s EXCEPT !.t.chars =
                        Append(@, CharLogEntry("FC_RenderLeft", c, codepoint, g,
                                  g.glyph.rect.w * scale.x + g.s.f.letterSpacing * scale.x,
                                  FALSE))],
               !.destX = @ + g.glyph.rect.w * scale.x + g.s.f.letterSpacing * scale.x]
       ELSE DrawGlyph(r, c, codepoint, g, scale) :
         g \in {GlyphOrSpace(r.s, codepoint)}} : TRUE

\* FC_RenderLeft, one character that is not a newline
RenderChar(r, c, codepoint, scale) ==
    CHOOSE ret \in
      {IF ~g.ok /\ ~g.spaceOk
       THEN \* skip bad characters
            [r EXCEPT !.s = [g.s EXCEPT !.t.chars =
                               Append(@, CharLogEntry("FC_RenderLeft", c, codepoint, g,
                                                      0, FALSE))]]
       ELSE IF ~g.ok \/ codepoint = SPACE
       THEN [r EXCEPT
               !.s = [g.s EXCEPT !.t.chars =
                        Append(@, CharLogEntry("FC_RenderLeft", c, codepoint, g,
                                  g.glyph.rect.w * scale.x + g.s.f.letterSpacing * scale.x,
                                  FALSE))],
               !.destX = @ + g.glyph.rect.w * scale.x + g.s.f.letterSpacing * scale.x]
       ELSE DrawGlyph(r, c, codepoint, g, scale) :
         g \in {GlyphOrSpace(r.s, codepoint)}} : TRUE

\* FC_RenderLeft, the loop from position c on
RECURSIVE RenderFrom(_, _, _, _, _)
RenderFrom(r, text, c, newlineX, scale) ==
    IF ByteAt(text, c) = 0
    THEN [r EXCEPT !.s.t.ub = @ \/ c > Len(text) + 1]
    ELSE IF ByteAt(text, c) = NEWLINE
    THEN RenderFrom([r EXCEPT !.destX = newlineX,
                              !.destY = @ + r.s.f.height * scale.y
                                          + r.s.f.lineSpacing * scale.y,
                              !.s.t.ys = Append(@, r.destY + r.s.f.height * scale.y
                                                     + r.s.f.lineSpacing * scale.y)],
                    text, c + 1, newlineX, scale)
    ELSE CHOOSE ret \in
           {RenderFrom(r1, text, c + U8_charsize(text, c), newlineX, scale) :
              r1 \in {RenderChar(r, c, FC_GetCodepointFromUTF8(text, c), scale)}} : TRUE

FC_RenderLeft(s, x, y, scale, text) ==
    IF s.f.glyph_cache_count = 0
    THEN [s |-> s, destX |-> x, destY |-> y,
          dirtyRect |-> [x |-> x, y |-> y, w |-> 0, h |-> 0]]
    ELSE RenderFrom([s |-> [s EXCEPT !.t.ys = Append(@, y)], destX |-> x, destY |-> y,
                     dirtyRect |-> [x |-> x, y |-> y, w |-> 0, h |-> 0]],
                    text, 1, x, scale)

\* the first position of the text that holds one of the delimiters
FirstOf(text, delimiters) ==
    CHOOSE i \in {j \in 1..Len(text) : text[j] \in delimiters} :
       \A j \in 1..(i - 1) : text[j] \notin delimiters

HasOf(text, delimiters) == \E j \in 1..Len(text) : text[j] \in delimiters

RECURSIVE FC_Explode(_, _)
FC_Explode(text, delimiter) ==
    IF ~HasOf(text, {delimiter}) THEN <<text>>
    ELSE CHOOSE ret \in
           {<<SubSeq(text, 1, end - 1)>>
              \o FC_Explode(SubSeq(text, end + 1, Len(text)), delimiter) :
              end \in {FirstOf(text, {delimiter})}} : TRUE

\* FC_ExplodeAndKeep from a piece on that starts with the delimiter
RECURSIVE KeptPieces(_, _)
KeptPieces(rest, delimiter) ==
    IF ~HasOf(Tail(rest), {delimiter}) THEN <<rest>>
    ELSE CHOOSE ret \in
           {<<SubSeq(rest, 1, end)>>
              \o KeptPieces(SubSeq(rest, end + 1, Len(rest)), delimiter) :
              end \in {FirstOf(Tail(rest), {delimiter})}} : TRUE

FC_ExplodeAndKeep(text, delimiter) ==
    IF ~HasOf(text, {delimiter}) THEN <<text>>
    ELSE CHOOSE ret \in
           {<<SubSeq(text, 1, end - 1)>>
              \o KeptPieces(SubSeq(text, end, Len(text)), delimiter) :
              end \in {FirstOf(text, {delimiter})}} : TRUE

\* the words of a text and, for each word, the separator behind it (empty
\* behind the last word)
RECURSIVE FC_ExplodeBreakingSpace(_)
FC_ExplodeBreakingSpace(text) ==
    IF ~HasOf(text, {SPACE, TAB}) THEN [words |-> <<text>>, spaces |-> << <<>> >>]
    ELSE CHOOSE ret \in UNION
           {{[words |-> <<SubSeq(text, 1, end - 1)>> \o rest.words,
              spaces |-> << <<text[end]>> >> \o rest.spaces] :
               rest \in {FC_ExplodeBreakingSpace(SubSeq(text, end + 1, Len(text)))}} :
              end \in {FirstOf(text, {SPACE, TAB})}} : TRUE

\* an emitted line: its bytes and, as history, whether its paragraph was
\* wrapped, and the words put on it
Line(value, wrapped, words) == [value |-> value, wrapped |-> wrapped, words |-> words]

\* mutant: a word that makes the line just as wide as the column is moved to
\* the next line
WordStep_BreakOnFit(w, word, space, width) ==
    CHOOSE ret \in
      {IF m.width >= width
       THEN [s |-> [m.s EXCEPT !.t.wraps =
                      Append(@, [line |-> w.line, word |-> word, measured |-> m.width,
                                 flushed |-> TRUE])],
             line |-> word \o space, words |-> <<word>>,
             out |-> Append(w.out, Line(w.line, TRUE, w.words))]
       ELSE [s |-> [m.s EXCEPT !.t.wraps =
                      Append(@, [line |-> w.line, word |-> word, measured |-> m.width,
                                 flushed |-> FALSE])],
             line |-> w.line \o word \o space, words |-> Append(w.words, word),
             out |-> w.out] :
         m \in {FC_GetWidth(w.s, w.line \o word)}} : TRUE

\* mutant: the word alone is measured, not the line with the word
WordStep_MeasureWord(w, word, space, width) ==
    CHOOSE ret \in
      {IF m.width > width
       THEN [s |-> [m.s EXCEPT !.t.wraps =
                      Append(@, [line |-> w.line, word |-> word, measured |-> m.width,
                                 flushed |-> TRUE])],
             line |-> word \o space, words |-> <<word>>,
             out |-> Append(w.out, Line(w.line, TRUE, w.words))]
       ELSE [s |-> [m.s EXCEPT !.t.wraps =
                      Append(@, [line |-> w.line, word |-> word, measured |-> m.width,
                                 flushed |-> FALSE])],
             line |-> w.line \o word \o space, words |-> Append(w.words, word),
             out |-> w.out] :
         m \in {FC_GetWidth(w.s, word)}} : TRUE

\* mutant: the line is measured before the word is put on it
WordStep_MeasureLine(w, word, space, width) ==
    CHOOSE ret \in
      {IF m.width > width
       THEN [s |-> [m.s EXCEPT !.t.wraps =
                      Append(@, [line |-> w.line, word |-> word, measured |-> m.width,
                                 flushed |-> TRUE])],
             line |-> word \o space, words |-> <<word>>,
             out |-> Append(w.out, Line(w.line, TRUE, w.words))]
       ELSE [s |-> [m.s EXCEPT !.t.wraps =
                      Append(@, [line |-> w.line, word |-> word, measured |-> m.width,
                                 flushed |-> FALSE])],
             line |-> w.line \o word \o space, words |-> Append(w.words, word),
             out |-> w.out] :
         m \in {FC_GetWidth(w.s, w.line)}} : TRUE

\* mutant: the separator behind a word that starts a line is left out
WordStep_DropSpace(w, word, space, width) ==
    CHOOSE ret \in
      {IF m.width > width
       THEN [s |-> [m.s EXCEPT !.t.wraps =
                      Append(@, [line |-> w.line, word |-> word, measured |-> m.width,
                                 flushed |-> TRUE])],
             line |-> word, words |-> <<word>>,
             out |-> Append(w.out, Line(w.line, TRUE, w.words))]
       ELSE [s |-> [m.s EXCEPT !.t.wraps =
                      Append(@, [line |-> w.line, word |-> word, measured |-> m.width,
                                 flushed |-> FALSE])],
             line |-> w.line \o word \o space, words |-> Append(w.words, word),
             out |-> w.out] :
         m \in {FC_GetWidth(w.s, w.line \o word)}} : TRUE

\* FC_GetBufferFitToColumn, one iteration of the word loop: w is the loop
\* state [s, line, words, out]
WordStep(w, word, space, width) ==
    CHOOSE ret \in
      {IF m.width > width
       THEN [s |-> [m.s EXCEPT !.t.wraps =
                      Append(@, [line |-> w.line, word |-> word, measured |-> m.width,
                                 flushed |-> TRUE])],
             line |-> word \o space, words |-> <<word>>,
             out |-> Append(w.out, Line(w.line, TRUE, w.words))]
       ELSE [s |-> [m.s EXCEPT !.t.wraps =
                      Append(@, [line |-> w.line, word |-> word, measured |-> m.width,
                                 flushed |-> FALSE])],
             line |-> w.line \o word \o space, words |-> Append(w.words, word),
             out |-> w.out] :
         m \in {FC_GetWidth(w.s, w.line \o word)}} : TRUE

\* the word loop from word number k on
RECURSIVE WordLoop(_, _, _, _)
WordLoop(w, x, k, width) ==
    IF k > Len(x.words) THEN w
    ELSE CHOOSE ret \in
           {WordLoop(w1, x, k + 1, width) :
              w1 \in {WordStep(w, x.words[k], x.spaces[k], width)}} : TRUE

\* a paragraph wider than the column: its words put on lines
WrapWords(s, out, x, width) ==
    CHOOSE ret \in
      {[s |-> w.s, out |-> Append(w.out, Line(w.line, TRUE, w.words))] :
         w \in {WordLoop([s |-> s, line |-> x.words[1] \o x.spaces[1],
                          words |-> <<x.words[1]>>, out |-> out],
                         x, 2, width)}} : TRUE

\* FC_GetBufferFitToColumn, one paragraph
WrapParagraph(s, out, line, width) ==
    IF width <= 0 THEN [s |-> s, out |-> Append(out, Line(line, FALSE, <<>>))]
    ELSE CHOOSE ret \in
           {IF m.width > width
            THEN WrapWords(m.s, out, FC_ExplodeBreakingSpace(line), width)
            ELSE [s |-> m.s, out |-> Append(out, Line(line, FALSE, <<>>))] :
              m \in {FC_GetWidth(s, line)}} : TRUE

\* the paragraph loop from paragraph number i on
RECURSIVE ParagraphLoop(_, _, _, _)
ParagraphLoop(p, ls, i, width) ==
    IF i > Len(ls) THEN p
    ELSE CHOOSE ret \in
           {ParagraphLoop(p1, ls, i + 1, width) :
              p1 \in {WrapParagraph(p.s, p.out, ls[i], width)}} : TRUE

FC_GetBufferFitToColumn(s, buffer, width, keep_newlines) ==
    ParagraphLoop([s |-> s, out |-> <<>>],
                  IF keep_newlines THEN FC_ExplodeAndKeep(buffer, NEWLINE)
                  ELSE FC_Explode(buffer, NEWLINE),
                  1, width)

\* FC_GetWrappedText, the copy loop from line k of ls on: a is [result,
\* size_remaining], result the bytes written to the buffer so far
RECURSIVE CopyLines(_, _, _)
CopyLines(a, ls, k) ==
    IF k > Len(ls) \/ a.size_remaining <= 0 THEN a
    ELSE LET num_bytes == FC_MIN(Len(ls[k].value), a.size_remaining)
             copied == a.result \o SubSeq(ls[k].value, 1, num_bytes)
         IN  IF a.size_remaining > 0 /\ k < Len(ls)
             THEN CopyLines([result |-> Append(copied, NEWLINE),
                             size_remaining |-> a.size_remaining - 1], ls, k + 1)
             ELSE CopyLines([a EXCEPT !.result = copied], ls, k + 1)

\* FC_GetWrappedText on a font and a text that are not null: result is what
\* was written to the buffer, the terminator included, ret the value returned
FC_GetWrappedText(s, max_result_size, width, text) ==
    IF width = 0 THEN [s |-> s, result |-> <<>>, ret |-> 0]
    ELSE CHOOSE ret \in UNION
           {{[s |-> ls.s, result |-> Append(a.result, 0), ret |-> Len(a.result)] :
               a \in {CopyLines([result |-> <<>>, size_remaining |-> max_result_size - 1],
                                ls.out, 1)}} :
              ls \in {FC_GetBufferFitToColumn(s, FC_EXTRACT_VARARGS(text), width, FALSE)}} : TRUE

FC_SetSpacing(f, LetterSpacing) == [f EXCEPT !.letterSpacing = LetterSpacing]

FC_SetLineSpacing(f, LineSpacing) == [f EXCEPT !.lineSpacing = LineSpacing]

\* the conversion of a float with an exact half to int: towards zero
TruncHalf(n) == IF n >= 0 THEN n \div 2 ELSE -((-n) \div 2)

\* FC_RenderCenter and FC_RenderRight, the line from position c of str on
\* (to the next newline or to the end): a is the loop state [s, y, result],
\* half tells the centred draw from the right-aligned one
RenderLine(a, str, x, scale, half) ==
    CHOOSE ret \in UNION
      {{[s |-> r.s, y |-> a.y, result |-> SDL_RectUnion(r.dirtyRect, a.result)] :
          r \in {FC_RenderLeft(m.s,
                               IF half THEN TruncHalf(2 * x - scale.x * m.width)
                               ELSE x - scale.x * m.width,
                               a.y, scale, str)}} :
         m \in {FC_GetWidth(a.s, str)}} : TRUE

\* the loop over the lines of the text: ls are the pieces between the
\* newlines, k the number of the piece
RECURSIVE RenderLines(_, _, _, _, _, _)
RenderLines(a, ls, k, x, scale, half) ==
    IF k = Len(ls) THEN RenderLine(a, ls[k], x, scale, half)
    ELSE CHOOSE ret \in
           {RenderLines([a1 EXCEPT !.y = @ + scale.y * a1.s.f.height],
                        ls, k + 1, x, scale, half) :
              a1 \in {RenderLine(a, ls[k], x, scale, half)}} : TRUE

FC_RenderCenter(s, x, y, scale, text) ==
    RenderLines([s |-> s, y |-> y, result |-> [x |-> x, y |-> y, w |-> 0, h |-> 0]],
                FC_Explode(text, NEWLINE), 1, x, scale, TRUE)

FC_RenderRight(s, x, y, scale, text) ==
    RenderLines([s |-> s, y |-> y, result |-> [x |-> x, y |-> y, w |-> 0, h |-> 0]],
                FC_Explode(text, NEWLINE), 1, x, scale, FALSE)

\* FC_DrawEffect without the colour: the result is [s, result]
FC_DrawEffect(s0, x, y, effect, text) ==
  LET s == set_color_for_all_caches(s0, effect.color) IN
    IF effect.alignment = "FC_ALIGN_LEFT"
    THEN CHOOSE ret \in
           {[s |-> r.s, result |-> r.dirtyRect] :
              r \in {FC_RenderLeft(s, x, y, effect.scale, FC_EXTRACT_VARARGS(text))}} : TRUE
    ELSE IF effect.alignment = "FC_ALIGN_CENTER"
    THEN CHOOSE ret \in
           {[s |-> r.s, result |-> r.result] :
              r \in {FC_RenderCenter(s, x, y, effect.scale, FC_EXTRACT_VARARGS(text))}} : TRUE
    ELSE IF effect.alignment = "FC_ALIGN_RIGHT"
    THEN CHOOSE ret \in
           {[s |-> r.s, result |-> r.result] :
              r \in {FC_RenderRight(s, x, y, effect.scale, FC_EXTRACT_VARARGS(text))}} : TRUE
    ELSE [s |-> s, result |-> [x |-> x, y |-> y, w |-> 0, h |-> 0]]

FC_DrawColor(s, x, y, color, text) ==
    CHOOSE ret \in
      {[s |-> r.s, result |-> r.dirtyRect] :
         r \in {FC_RenderLeft(set_color_for_all_caches(s, color), x, y,
                              [x |-> 1, y |-> 1], FC_EXTRACT_VARARGS(text))}} : TRUE

FC_SetDefaultColor(f, color) == [f EXCEPT !.default_color = color]

FC_GetLineHeight(f) == f.height

\* Adapted from SDL_IntersectRect: the overlap of A and B, empty (0 wide or
\* 0 high) when they do not meet
SDL_RectIntersect(A, B) ==
    LET x == FC_MAX(A.x, B.x)
        y == FC_MAX(A.y, B.y)
        x2 == FC_MIN(A.x + A.w, B.x + B.w)
        y2 == FC_MIN(A.y + A.h, B.y + B.h)
    IN  [x |-> x, y |-> y,
         w |-> IF x2 - x > 0 THEN x2 - x ELSE 0,
         h |-> IF y2 - y > 0 THEN y2 - y ELSE 0]

\* FC_RenderAlign: the result is the context after the draw
FC_RenderAlign(s, x, y, width, scale, align, text) ==
    IF align = "FC_ALIGN_LEFT"
    THEN CHOOSE ret \in {r.s : r \in {FC_RenderLeft(s, x, y, scale, text)}} : TRUE
    ELSE IF align = "FC_ALIGN_CENTER"
    THEN CHOOSE ret \in
           {r.s : r \in {FC_RenderCenter(s, x + TruncHalf(width), y, scale, text)}} : TRUE
    ELSE IF align = "FC_ALIGN_RIGHT"
    THEN CHOOSE ret \in
           {r.s : r \in {FC_RenderRight(s, x + width, y, scale, text)}} : TRUE
    ELSE s

\* FC_DrawColumnFromBuffer, the loop from line number k on: d is [s, y]
RECURSIVE ColumnLines(_, _, _, _, _, _)
ColumnLines(d, ls, k, box, scale, align) ==
    IF k > Len(ls) THEN d
    ELSE CHOOSE ret \in
           {ColumnLines([s |-> s1, y |-> d.y + FC_GetLineHeight(s1.f)],
                        ls, k + 1, box, scale, align) :
              s1 \in {FC_RenderAlign(d.s, box.x, d.y, box.w, scale, align,
                                     ls[k].value)}} : TRUE

\* the result is [s, total_height]
FC_DrawColumnFromBuffer(s, buffer, box, scale, align) ==
    CHOOSE ret \in UNION
      {{[s |-> d.s, total_height |-> d.y - box.y] :
          d \in {ColumnLines([s |-> ls.s, y |-> box.y], ls.out, 1, box, scale, align)}} :
         ls \in {FC_GetBufferFitToColumn(s, buffer, box.w, FALSE)}} : TRUE

\* mutant: the clip of the box stays installed
FC_DrawBoxEffect_KeepClip(s, box, effect, text) ==
    CHOOSE ret \in UNION
      {{[s |-> d.s, result |-> box] :
          d \in {FC_DrawColumnFromBuffer(s1, FC_EXTRACT_VARARGS(text), box,
                                         effect.scale, effect.alignment)}} :
         s1 \in {set_clip(set_color_for_all_caches(s, effect.color),
                          Clip(IF has_clip(s)
                               THEN SDL_RectIntersect(get_clip(s), box)
                               ELSE box))}} : TRUE

\* FC_DrawBoxEffect, and with it FC_DrawBox, FC_DrawBoxAlign, FC_DrawBoxScale
\* and FC_DrawBoxColor, which differ in the colour, the scale and the
\* alignment they pass on: the result is [s, result]
FC_DrawBoxEffect(s, box, effect, text) ==
    CHOOSE ret \in UNION
      {{[s |-> IF has_clip(s) THEN set_clip(d.s, Clip(get_clip(s)))
               ELSE set_clip(d.s, NoClip),
         result |-> box] :
          d \in {FC_DrawColumnFromBuffer(s1, FC_EXTRACT_VARARGS(text), box,
                                         effect.scale, effect.alignment)}} :
         s1 \in {set_clip(set_color_for_all_caches(s, effect.color),
                          Clip(IF has_clip(s)
                               THEN SDL_RectIntersect(get_clip(s), box)
                               ELSE box))}} : TRUE

----------------------------------------------------------------------------
(* Inputs of the operations *)

\* TAB, space, 'C' (a wide glyph) and a character without glyph
Codepoints == {TAB, SPACE, 67, 50089}

\* nothing, a TAB before anything else, "ABDE", a string with a repeated
\* letter, a character without glyph and a two-byte character, and the default
LoadingStrings ==
    {<<>>, <<TAB, 65>>, <<65, 66, 68, 69>>, <<65, 65, 195, 169, 206, 169>>,
     FC_GetStringASCII}

TabWidths == {0, DefaultTabWidth}

\* levels a caller installs itself: a 100 x 100 or a 12 x 6 texture in place of
\* the level being packed, or a 100 x 100 texture as the next level
LevelInputs(f) ==
    {[cache_level |-> f.last_glyph.cache_level, texture |-> Tex(100, 100)],
     [cache_level |-> f.last_glyph.cache_level, texture |-> Tex(12, 6)],
     [cache_level |-> f.glyph_cache_count, texture |-> Tex(100, 100)]}

\* glyphs a caller records itself: a space and a 'C', each 6 wide
GlyphInputs ==
    {[codepoint |-> SPACE, glyph_data |-> FC_MakeGlyphData(0, 50, 50, 6, 1)],
     [codepoint |-> 67, glyph_data |-> FC_MakeGlyphData(0, 60, 50, 6, 1)]}

\* a renderer whose caller made a texture of its own the target and set a clip
CallerTarget == Tex(64, 64)

CallerClip == Clip([x |-> 4, y |-> 2, w |-> 30, h |-> 20])

CallerRenderer == [target |-> CallerTarget, clip |-> CallerClip, backup |-> NoClip]

\* the environment during one call: how many textures the renderer grants,
\* what a read of a never-written slot or variable yields, and the state of
\* the renderer when the call starts
Envs ==
    {[texAvail |-> n, garbage |-> g.tex, garbW |-> g.w, ren |-> DefaultRenderer] :
        n \in {0, 1, MaxTex}, g \in {[tex |-> NullTex, w |-> 0], [tex |-> Wild(100, 100), w |-> 3]}}

\* the arguments and the results of a text operation (history)
NoInput == [text |-> <<>>, column |-> 0, keep_newlines |-> FALSE,
            scale |-> [x |-> 0, y |-> 0], e |-> 0, align |-> "FC_ALIGN_LEFT",
            box |-> NoRect, nullFont |-> FALSE, nullText |-> FALSE, color |-> Black]

NoOutput == [width |-> 0, lines |-> <<>>, destX |-> 0, destY |-> 0,
             codepoints |-> <<>>, utf8 |-> <<>>, texture |-> NullTex,
             result |-> <<>>, ret |-> 0,
             dirtyRect |-> [x |-> 0, y |-> 0, w |-> 0, h |-> 0]]

EmptyTrace ==
    [nPack |-> 0, nRaster |-> 0, ub |-> FALSE, hitLimit |-> FALSE,
     uploads |-> <<>>, blits |-> <<>>, packed |-> <<>>, packLog |-> <<>>,
     growLog |-> <<>>, chars |-> <<>>, draws |-> <<>>, wraps |-> <<>>,
     ys |-> <<>>, ren0 |-> DefaultRenderer, ren |-> DefaultRenderer,
     clips |-> <<>>, targets |-> <<>>, handles |-> <<>>, levels0 |-> 0,
     mods |-> <<>>,
     in |-> NoInput, out |-> NoOutput]

Ctx(e) == [f |-> font, e |-> e, t |-> [EmptyTrace EXCEPT !.ren0 = e.ren, !.ren = e.ren]]

----------------------------------------------------------------------------
(* Initial state: a font fresh from FC_CreateFont *)

Init ==
    /\ font = FC_CreateFont
    /\ fc_tab_width = DefaultTabWidth
    /\ packed = <<>>
    /\ call = [op |-> "FC_CreateFont", arg |-> 0, ok |-> TRUE, glyph |-> NoGlyph,
               t |-> EmptyTrace]
    /\ budget = [levelSets |-> 0, glyphSets |-> 0, textOps |-> 0]

----------------------------------------------------------------------------
(* Operations *)

\* (the loading string is read by the next load only: set on an unloaded font)
SetLoadingString(str) ==
    /\ font.ttf_source = 0
    /\ font.loading_string # str
    /\ font' = [font EXCEPT !.loading_string = str]
    /\ call' = [op |-> "FC_SetLoadingString", arg |-> 0, ok |-> TRUE, glyph |-> NoGlyph,
                t |-> EmptyTrace]
    /\ UNCHANGED <<fc_tab_width, packed, budget>>

SetTabWidth(width_in_spaces) ==
    /\ fc_tab_width # width_in_spaces
    /\ fc_tab_width' = width_in_spaces
    /\ call' = [op |-> "FC_SetTabWidth", arg |-> width_in_spaces, ok |-> TRUE,
                glyph |-> NoGlyph, t |-> EmptyTrace]
    /\ UNCHANGED <<font, packed, budget>>

\* (FC_LoadFontFromTTF starts with FC_ClearFont, so loading a loaded font is
\* ClearFont followed by this action)
LoadFontFromTTF(ttf, e) ==
    /\ font.ttf_source = 0
    /\ \E s \in {Ctx(e)} : \E r \in {FC_LoadFontFromTTF(s, ttf)} :
         /\ font' = r.f
         /\ packed' = r.t.packed
         /\ call' = [op |-> "FC_LoadFontFromTTF", arg |-> ttf, ok |-> TRUE,
                     glyph |-> NoGlyph, t |-> r.t]
    /\ UNCHANGED <<fc_tab_width, budget>>

ClearFont ==
    /\ font' = FC_ClearFont(font)
    /\ packed' = <<>>
    /\ call' = [op |-> "FC_ClearFont", arg |-> 0, ok |-> TRUE, glyph |-> NoGlyph,
                t |-> EmptyTrace]
    /\ UNCHANGED <<fc_tab_width, budget>>

GetGlyphData(codepoint, e) ==
    \E s \in {Ctx(e)} : \E r \in {FC_GetGlyphData(s, codepoint)} :
      /\ font' = r.s.f
      /\ packed' = packed \o r.s.t.packed
      /\ call' = [op |-> "FC_GetGlyphData", arg |-> codepoint, ok |-> r.ok,
                  glyph |-> r.glyph, t |-> r.s.t]
      /\ UNCHANGED <<fc_tab_width, budget>>

SetGlyphCacheLevel(cache_level, cache_texture) ==
    /\ budget.levelSets < MaxLevelSets
    /\ \E r \in {FC_SetGlyphCacheLevel(font, cache_level, cache_texture)} :
         /\ font' = r.f
         /\ call' = [op |-> "FC_SetGlyphCacheLevel", arg |-> cache_level, ok |-> r.ok,
                     glyph |-> NoGlyph, t |-> [EmptyTrace EXCEPT !.ub = r.ub]]
    /\ budget' = [budget EXCEPT !.levelSets = @ + 1]
    /\ UNCHANGED <<fc_tab_width, packed>>

SetGlyphData(codepoint, glyph_data) ==
    /\ budget.glyphSets < MaxGlyphSets
    /\ font' = FC_SetGlyphData(font, codepoint, glyph_data)
    /\ call' = [op |-> "FC_SetGlyphData", arg |-> codepoint, ok |-> TRUE,
                glyph |-> glyph_data, t |-> EmptyTrace]
    /\ budget' = [budget EXCEPT !.glyphSets = @ + 1]
    /\ UNCHANGED <<fc_tab_width, packed>>

Next ==
    \/ \E str \in LoadingStrings : SetLoadingString(str)
    \/ \E n \in TabWidths : SetTabWidth(n)
    \/ \E ttf \in TTFs, e \in Envs : LoadFontFromTTF(ttf, e)
    \/ ClearFont
    \/ \E c \in Codepoints, e \in Envs : GetGlyphData(c, e)
    \/ \E i \in LevelInputs(font) : SetGlyphCacheLevel(i.cache_level, i.texture)

Spec == Init /\ [][Next]_vars

----------------------------------------------------------------------------
(* The packer on its own: glyphs of chosen widths packed one after the other *)
(* into a font loaded with an empty loading string, the way FC_GetGlyphData   *)
(* packs a rendered glyph.                                                    *)

\* pack attempts in one run
MaxPacks == 5

\* widths of the rendered glyphs
PackWidths == {10, 90}

\* every texture is granted
FullEnv == [texAvail |-> MaxTex, garbage |-> NullTex, garbW |-> 0, ren |-> DefaultRenderer]

\* a font loaded from ttf with nothing to preload
LoadedEmpty(ttf) ==
    FC_LoadFontFromTTF([f |-> [FC_CreateFont EXCEPT !.loading_string = <<>>],
                        e |-> FullEnv, t |-> EmptyTrace], ttf).f

InitPack ==
    /\ \E ttf \in TTFs :
          \/ font = LoadedEmpty(ttf)
          \/ font = FC_SetGlyphCacheLevel(LoadedEmpty(ttf), 0, Tex(100, 100)).f
    /\ fc_tab_width = DefaultTabWidth
    /\ packed = <<>>
    /\ call = [op |-> "FC_LoadFontFromTTF", arg |-> 0, ok |-> TRUE, glyph |-> NoGlyph,
               t |-> EmptyTrace]
    /\ budget = [levelSets |-> 0, glyphSets |-> 0, textOps |-> 0]

\* FC_GetGlyphData from the query of the level size to the first pack attempt,
\* for the next letter and a rendered glyph of this width
PackGlyph(width) ==
    /\ call.t.nPack < MaxPacks
    /\ \E s \in {[f |-> font, e |-> FullEnv, t |-> [EmptyTrace EXCEPT !.nPack = call.t.nPack]]} :
       \E cache_image \in {FC_GetGlyphCacheLevel(s, s.f.last_glyph.cache_level)} :
         /\ cache_image.tex.kind # "null"
         /\ \E r \in {FC_PackGlyphData(s, 65 + call.t.nPack, width,
                                       U16(cache_image.tex.w), U16(cache_image.tex.h))} :
              /\ font' = r.s.f
              /\ packed' = packed \o r.s.t.packed
              /\ call' = [op |-> "FC_PackGlyphData", arg |-> 65 + call.t.nPack,
                          ok |-> r.ok, glyph |-> r.glyph, t |-> r.s.t]
    /\ UNCHANGED <<fc_tab_width, budget>>

\* FC_GetGlyphData after a failed pack attempt: grow the cache
GrowGlyphCache ==
    /\ call.op = "FC_PackGlyphData"
    /\ ~call.ok
    /\ \E s \in {[f |-> font, e |-> FullEnv, t |-> [EmptyTrace EXCEPT !.nPack = call.t.nPack]]} :
       \E r \in {FC_GrowGlyphCache(s)} :
         /\ font' = r.s.f
         /\ call' = [op |-> "FC_GrowGlyphCache", arg |-> 0, ok |-> r.ok,
                     glyph |-> NoGlyph, t |-> r.s.t]
    /\ UNCHANGED <<fc_tab_width, packed, budget>>

NextPack ==
    \/ \E width \in PackWidths : PackGlyph(width)
    \/ GrowGlyphCache

SpecPack == InitPack /\ [][NextPack]_vars

----------------------------------------------------------------------------
(* Text operations on their own: texts measured, drawn and wrapped with a    *)
(* font that was loaded with nothing or with the default string preloaded,   *)
(* or was never loaded and holds what its caller gave it.                    *)

\* text operations in one run, the repetition of the operation just done not
\* counted
MaxTextOps == 1

\* "The quick brown fox"
TextFox ==
    <<84, 104, 101, 32, 113, 117, 105, 99, 107, 32, 98, 114, 111, 119, 110, 32,
      102, 111, 120>>

\* "ab cdefgh ij"
TextLongWord == <<97, 98, 32, 99, 100, 101, 102, 103, 104, 32, 105, 106>>

\* " a  b ": a separator in front, two in a row, one at the end
TextSeparators == <<32, 97, 32, 32, 98, 32>>

\* "a", TAB, a character without glyph, "b", newline, "cd e"
TextMixed == <<97, 9, 195, 169, 98, 10, 99, 100, 32, 101>>

Texts == {TextFox, TextLongWord, TextSeparators, TextMixed}

\* no column, and columns as wide as two letters and a bit, and as
\* "The quick" in the one and in the other font
ColumnWidths == {0, 12, 42, 84}

Scales == {[x |-> 1, y |-> 1], [x |-> 2, y |-> 2]}

LetterSpacings == {0, 2}

WrapInputs ==
    {[NoInput EXCEPT !.text = text, !.column = width, !.scale = [x |-> 1, y |-> 1],
                     !.e = e] :
        text \in Texts, width \in ColumnWidths, e \in {FullEnv}}
    \cup
    {[NoInput EXCEPT !.text = TextMixed, !.column = width, !.keep_newlines = TRUE,
                     !.scale = [x |-> 1, y |-> 1], !.e = FullEnv] : width \in {12, 42}}

WidthInputs ==
    {[NoInput EXCEPT !.text = text, !.e = FullEnv] : text \in Texts}

RenderInputs ==
    {[NoInput EXCEPT !.text = text, !.scale = scale, !.e = FullEnv] :
        text \in Texts, scale \in Scales}

\* a font loaded with the default loading string preloaded
LoadedASCII ==
    FC_LoadFontFromTTF([f |-> FC_CreateFont, e |-> FullEnv, t |-> EmptyTrace], 2).f

\* a font that was never loaded, with one level installed by its caller
CallerLevelOnly == FC_SetGlyphCacheLevel(FC_CreateFont, 0, Tex(100, 100)).f

\* (FC_CreateFont: a font that was never loaded and has no level at all)
TextFonts ==
    {FC_CreateFont, CallerLevelOnly, LoadedEmpty(1), LoadedEmpty(2), LoadedASCII}

InitText ==
    /\ font \in TextFonts
    /\ fc_tab_width = DefaultTabWidth
    /\ packed = <<>>
    /\ call = [op |-> "FC_LoadFontFromTTF", arg |-> 0, ok |-> TRUE, glyph |-> NoGlyph,
               t |-> EmptyTrace]
    /\ budget = [levelSets |-> 0, glyphSets |-> 0, textOps |-> 0]

\* the operation repeats the one just done, with the same arguments
Repeats(op, in) == call.op = op /\ call.t.in = in

TextCtx(in) ==
    [f |-> font, e |-> in.e,
     t |-> [EmptyTrace EXCEPT !.in = in, !.ren0 = in.e.ren, !.ren = in.e.ren]]

TextBudget(op, in) ==
    /\ Repeats(op, in) \/ budget.textOps < MaxTextOps
    /\ budget' = IF Repeats(op, in) THEN budget ELSE [budget EXCEPT !.textOps = @ + 1]

GetWidth(in) ==
    /\ TextBudget("FC_GetWidth", in)
    /\ \E s \in {TextCtx(in)} : \E r \in {FC_GetWidth(s, in.text)} :
         /\ font' = r.s.f
         /\ packed' = packed \o r.s.t.packed
         /\ call' = [op |-> "FC_GetWidth", arg |-> 0, ok |-> TRUE, glyph |-> NoGlyph,
                     t |-> [r.s.t EXCEPT !.out.width = r.width]]
    /\ UNCHANGED fc_tab_width

RenderLeft(in) ==
    /\ TextBudget("FC_RenderLeft", in)
    /\ \E s \in {TextCtx(in)} : \E r \in {FC_RenderLeft(s, 0, 0, in.scale, in.text)} :
         /\ font' = r.s.f
         /\ packed' = packed \o r.s.t.packed
         /\ call' = [op |-> "FC_RenderLeft", arg |-> 0, ok |-> TRUE, glyph |-> NoGlyph,
                     t |-> [r.s.t EXCEPT !.out.destX = r.destX, !.out.destY = r.destY,
                                         !.out.dirtyRect = r.dirtyRect]]
    /\ UNCHANGED fc_tab_width

\* (the callers format the text into the shared buffer first)
GetBufferFitToColumn(in) ==
    /\ TextBudget("FC_GetBufferFitToColumn", in)
    /\ \E s \in {TextCtx(in)} :
       \E r \in {FC_GetBufferFitToColumn(s, FC_EXTRACT_VARARGS(in.text), in.column,
                                         in.keep_newlines)} :
         /\ font' = r.s.f
         /\ packed' = packed \o r.s.t.packed
         /\ call' = [op |-> "FC_GetBufferFitToColumn", arg |-> 0, ok |-> TRUE,
                     glyph |-> NoGlyph, t |-> [r.s.t EXCEPT !.out.lines = r.out]]
    /\ UNCHANGED fc_tab_width

SetSpacing(LetterSpacing) ==
    /\ font.letterSpacing # LetterSpacing
    /\ font' = FC_SetSpacing(font, LetterSpacing)
    /\ call' = [op |-> "FC_SetSpacing", arg |-> LetterSpacing, ok |-> TRUE,
                glyph |-> NoGlyph, t |-> EmptyTrace]
    /\ UNCHANGED <<fc_tab_width, packed, budget>>

NextText ==
    \/ \E in \in WidthInputs : GetWidth(in)
    \/ \E in \in RenderInputs : RenderLeft(in)
    \/ \E in \in WrapInputs : GetBufferFitToColumn(in)
    \/ \E n \in LetterSpacings : SetSpacing(n)
    \/ \E i \in GlyphInputs : SetGlyphData(i.codepoint, i.glyph_data)

SpecText == InitText /\ [][NextText]_vars

----------------------------------------------------------------------------
(* Draws on their own: texts of several lines drawn left-aligned, centred    *)
(* and right-aligned, at several scales, with a font loaded with nothing;    *)
(* between the draws the caller changes the spacings and the tab width.      *)

\* TAB, "a", two newlines, " b": with a tab width of 0 the first glyph drawn
\* is 0 pixels wide
TextTabFirst == <<9, 97, 10, 10, 32, 98>>

DrawTexts == {TextMixed, TextTabFirst}

\* (a negative x scale mirrors the glyphs and moves the cursor to the left)
DrawScales == {[x |-> 1, y |-> 1], [x |-> 2, y |-> 2], [x |-> -1, y |-> 1]}

Alignments == {"FC_ALIGN_LEFT", "FC_ALIGN_CENTER", "FC_ALIGN_RIGHT"}

LineSpacings == {0, 3}

\* the anchor of the draws
DrawX == 20

DrawY == 5

DrawInputs ==
    {[NoInput EXCEPT !.text = text, !.scale = scale, !.align = align, !.e = FullEnv] :
        text \in DrawTexts, scale \in DrawScales, align \in Alignments}

InitDraw ==
    /\ font \in {LoadedEmpty(1), LoadedEmpty(2)}
    /\ fc_tab_width = DefaultTabWidth
    /\ packed = <<>>
    /\ call = [op |-> "FC_LoadFontFromTTF", arg |-> 0, ok |-> TRUE, glyph |-> NoGlyph,
               t |-> EmptyTrace]
    /\ budget = [levelSets |-> 0, glyphSets |-> 0, textOps |-> 0]

DrawEffect(in) ==
    /\ TextBudget("FC_DrawEffect", in)
    /\ \E s \in {TextCtx(in)} :
       \E r \in {FC_DrawEffect(s, DrawX, DrawY,
                               [scale |-> in.scale, alignment |-> in.align, color |-> in.color], in.text)} :
         /\ font' = r.s.f
         /\ packed' = packed \o r.s.t.packed
         /\ call' = [op |-> "FC_DrawEffect", arg |-> 0, ok |-> TRUE, glyph |-> NoGlyph,
                     t |-> [r.s.t EXCEPT !.out.dirtyRect = r.result]]
    /\ UNCHANGED fc_tab_width

\* the boxes of the box draws: one that overlaps the caller's clip in part,
\* one that lies outside it, and one without size
Boxes ==
    {[x |-> 10, y |-> 0, w |-> 42, h |-> 30], [x |-> 40, y |-> 30, w |-> 12, h |-> 10],
     [x |-> DrawX, y |-> DrawY, w |-> 0, h |-> 0]}

\* the renderer before a box draw: with and without a clip, on the default
\* target and on a texture of the caller
BoxEnvs ==
    {[FullEnv EXCEPT !.ren = [target |-> target, clip |-> clip, backup |-> NoClip]] :
        target \in {NullTex, CallerTarget}, clip \in {NoClip, CallerClip}}

BoxInputs ==
    {[NoInput EXCEPT !.text = text, !.scale = [x |-> 1, y |-> 1], !.align = align,
                     !.box = box, !.e = e] :
        text \in DrawTexts, align \in Alignments, box \in Boxes, e \in BoxEnvs}

DrawBoxEffect(in) ==
    /\ TextBudget("FC_DrawBoxEffect", in)
    /\ \E s \in {TextCtx(in)} :
       \E r \in {FC_DrawBoxEffect(s, in.box, [scale |-> in.scale, alignment |-> in.align, color |-> in.color],
                                  in.text)} :
         /\ font' = r.s.f
         /\ packed' = packed \o r.s.t.packed
         /\ call' = [op |-> "FC_DrawBoxEffect", arg |-> 0, ok |-> TRUE, glyph |-> NoGlyph,
                     t |-> [r.s.t EXCEPT !.out.dirtyRect = r.result]]
    /\ UNCHANGED fc_tab_width

SetLineSpacing(LineSpacing) ==
    /\ font.lineSpacing # LineSpacing
    /\ font' = FC_SetLineSpacing(font, LineSpacing)
    /\ call' = [op |-> "FC_SetLineSpacing", arg |-> LineSpacing, ok |-> TRUE,
                glyph |-> NoGlyph, t |-> EmptyTrace]
    /\ UNCHANGED <<fc_tab_width, packed, budget>>

NextDraw ==
    \/ \E in \in DrawInputs : DrawEffect(in)
    \/ \E in \in BoxInputs : DrawBoxEffect(in)
    \/ \E n \in LineSpacings : SetLineSpacing(n)
    \/ \E n \in LetterSpacings : SetSpacing(n)
    \/ \E n \in TabWidths : SetTabWidth(n)

SpecDraw == InitDraw /\ [][NextDraw]_vars

----------------------------------------------------------------------------
(* Loads and lookups on their own, on a renderer in any state: on the        *)
(* default target or on a texture of the caller, with and without a clip,    *)
(* and granting no texture, one texture or all of them.                      *)

TargetEnvs ==
    {[texAvail |-> n, garbage |-> NullTex, garbW |-> 0, ren |-> ren] :
        n \in {0, 1, MaxTex},
        ren \in {DefaultRenderer, CallerRenderer, [CallerRenderer EXCEPT !.clip = NoClip]}}

NextTarget ==
    \/ \E str \in LoadingStrings : SetLoadingString(str)
    \/ \E ttf \in TTFs, e \in TargetEnvs : LoadFontFromTTF(ttf, e)
    \/ ClearFont
    \/ \E codepoint \in Codepoints, e \in TargetEnvs : GetGlyphData(codepoint, e)

SpecTarget == Init /\ [][NextTarget]_vars

----------------------------------------------------------------------------
(* The UTF-8 conversions on their own: a character is decoded, the codepoint *)
(* is encoded, and the encoding is decoded again.                            *)

\* continuation bytes: the first and the last one and two in between
Continuations == {128, 130, 172, 191}

\* well-formed UTF-8 characters: all of one byte but the terminator, and of
\* two, three and four bytes some lead bytes with all the continuations,
\* with the first and the last character of each length
Utf8Chars ==
    {<<b>> : b \in 1..127}
      \cup {<<b, c>> : b \in {194, 195, 206, 223}, c \in Continuations}
      \cup {<<b, c, d>> : b \in {225, 226, 239}, c \in Continuations, d \in Continuations}
      \cup {<<224, 160, 128>>, <<237, 159, 191>>}
      \cup {<<b, c, d, e>> : b \in {241, 243}, c \in Continuations,
                              d \in Continuations, e \in {128, 191}}
      \cup {<<240, 144, 128, 128>>, <<244, 143, 191, 191>>}

InitUtf8 ==
    /\ font = FC_CreateFont
    /\ fc_tab_width = DefaultTabWidth
    /\ packed = <<>>
    /\ call \in {[op |-> "FC_CreateFont", arg |-> 0, ok |-> TRUE, glyph |-> NoGlyph,
                   t |-> [EmptyTrace EXCEPT !.in.text = str]] : str \in Utf8Chars}
    /\ budget = [levelSets |-> 0, glyphSets |-> 0, textOps |-> 0]

\* the character is decoded, or the encoding of its codepoint is
GetCodepointFromUTF8 ==
    /\ \/ call.op = "FC_CreateFont"
       \/ call.op = "FC_GetUTF8FromCodepoint"
    /\ \E str \in {IF call.op = "FC_CreateFont" THEN call.t.in.text ELSE call.t.out.utf8} :
       \E codepoint \in {FC_GetCodepointFromUTF8(str, 1)} :
         call' = [call EXCEPT !.op = "FC_GetCodepointFromUTF8", !.arg = codepoint,
                              !.t.out.codepoints = Append(@, codepoint)]
    /\ UNCHANGED <<font, fc_tab_width, packed, budget>>

\* the codepoint decoded from the character is encoded
GetUTF8FromCodepoint ==
    /\ call.op = "FC_GetCodepointFromUTF8"
    /\ Len(call.t.out.codepoints) = 1
    /\ call' = [call EXCEPT !.op = "FC_GetUTF8FromCodepoint",
                            !.t.out.utf8 = FC_GetUTF8FromCodepoint(call.arg)]
    /\ UNCHANGED <<font, fc_tab_width, packed, budget>>

NextUtf8 ==
    \/ GetCodepointFromUTF8
    \/ GetUTF8FromCodepoint

SpecUtf8 == InitUtf8 /\ [][NextUtf8]_vars

----------------------------------------------------------------------------
(* The public operations as their callers see them: called with a pointer    *)
(* to a font, which may be null, and a text, which may be null.  The result  *)
(* is [ub, result]: ub tells that the call read through the null pointer.    *)

\* a pointer to the font, and the null pointer
Ptr(f) == [null |-> FALSE, at |-> f]

nullptr == [null |-> TRUE]

FC_GetNumCacheLevels(p) ==
    [ub |-> p.null, result |-> IF p.null THEN 0 ELSE p.at.glyph_cache_count]

\* FC_GetGlyphData: font->glyphs is read first; the result is the success
Call_GetGlyphData(p, e, codepoint) ==
    IF p.null THEN [ub |-> TRUE, result |-> 0]
    ELSE CHOOSE ret \in
           {[ub |-> r.s.t.ub, result |-> IF r.ok THEN 1 ELSE 0] :
              r \in {FC_GetGlyphData([f |-> p.at, e |-> e, t |-> EmptyTrace],
                                     codepoint)}} : TRUE

\* FC_SetGlyphData: font->glyphs is read first; the result tells whether a
\* node was returned
Call_SetGlyphData(p, codepoint, glyph_data) ==
    [ub |-> p.null, result |-> IF p.null THEN 0 ELSE 1]

\* FC_GetNumCodepoints
FC_GetNumCodepoints(p) ==
    IF p.null THEN [ub |-> FALSE, result |-> 0]
    ELSE [ub |-> FALSE,
          result |-> Cardinality(UNION {{<<i, k>> : k \in 1..Len(p.at.glyphs.buckets[i])} :
                                           i \in DOMAIN p.at.glyphs.buckets})]

\* FC_GetLineHeight
Call_GetLineHeight(p) ==
    IF p.null THEN [ub |-> FALSE, result |-> 0]
    ELSE [ub |-> FALSE, result |-> FC_GetLineHeight(p.at)]

\* FC_GetWidth
Call_GetWidth(p, e, text) ==
    IF text.null \/ p.null THEN [ub |-> FALSE, result |-> 0]
    ELSE CHOOSE ret \in
           {[ub |-> r.s.t.ub, result |-> r.width] :
              r \in {FC_GetWidth([f |-> p.at, e |-> e, t |-> EmptyTrace], text.at)}} : TRUE

\* FC_DrawBoxEffect and the other box draws
Call_DrawBoxEffect(p, e, box, effect, text) ==
    IF text.null \/ p.null
    THEN [ub |-> FALSE, result |-> [x |-> box.x, y |-> box.y, w |-> 0, h |-> 0]]
    ELSE CHOOSE ret \in
           {[ub |-> r.s.t.ub, result |-> r.result] :
              r \in {FC_DrawBoxEffect([f |-> p.at, e |-> e, t |-> EmptyTrace], box, effect,
                                      text.at)}} : TRUE

\* the calls of the operations above with their arguments
PublicCalls ==
    {"FC_GetNumCacheLevels", "FC_GetGlyphData", "FC_SetGlyphData", "FC_GetNumCodepoints",
     "FC_GetLineHeight", "FC_GetWidth", "FC_DrawBoxEffect"}

\* those of them that take a text
TextCalls == {"FC_GetWidth", "FC_DrawBoxEffect"}

PublicCall(name, p, text) ==
    IF name = "FC_GetNumCacheLevels" THEN FC_GetNumCacheLevels(p)
    ELSE IF name = "FC_GetGlyphData" THEN Call_GetGlyphData(p, FullEnv, SPACE)
    ELSE IF name = "FC_SetGlyphData"
    THEN Call_SetGlyphData(p, SPACE, FC_MakeGlyphData(0, 50, 50, 6, 1))
    ELSE IF name = "FC_GetNumCodepoints" THEN FC_GetNumCodepoints(p)
    ELSE IF name = "FC_GetLineHeight" THEN Call_GetLineHeight(p)
    ELSE IF name = "FC_GetWidth" THEN Call_GetWidth(p, FullEnv, text)
    ELSE Call_DrawBoxEffect(p, FullEnv, [x |-> DrawX, y |-> DrawY, w |-> 0, h |-> 0],
                            [scale |-> [x |-> 1, y |-> 1], alignment |-> "FC_ALIGN_LEFT",
                             color |-> Black],
                            text)

\* a query of the font in any state, with a null font, a null text or both,
\* or with neither; the font is not changed by the queries, a glyph the
\* lookup or a draw would cache is cached by the operations below
Query(name, p, text) ==
    /\ \E r \in {PublicCall(name, p, text)} :
         call' = [op |-> name, arg |-> IF name = "FC_DrawBoxEffect" THEN 0 ELSE r.result,
                  ok |-> ~r.ub, glyph |-> NoGlyph,
                  t |-> [EmptyTrace EXCEPT !.ub = r.ub,
                                           !.out.dirtyRect =
                                              IF name = "FC_DrawBoxEffect" THEN r.result
                                              ELSE @,
                                           !.in.nullFont = p.null,
                                           !.in.nullText =
                                              text.null /\ name \in TextCalls]]
    /\ UNCHANGED <<font, fc_tab_width, packed, budget>>

NextNull ==
    \/ \E str \in LoadingStrings : SetLoadingString(str)
    \/ \E ttf \in TTFs : LoadFontFromTTF(ttf, FullEnv)
    \/ ClearFont
    \/ \E codepoint \in Codepoints : GetGlyphData(codepoint, FullEnv)
    \/ \E name \in PublicCalls, p \in {Ptr(font), nullptr},
          text \in {Ptr(TextFox), nullptr} : Query(name, p, text)

SpecNull == Init /\ [][NextNull]_vars

----------------------------------------------------------------------------
(* Loads, clears and the free of a font, and the rasterizer handles.  A      *)
(* handle is a number: 1 and 2 are TTF fonts the caller opened (font 1 and   *)
(* font 2), the handles TTF_OpenFontRW returns are numbered from 3 on and    *)
(* are of font 2.  The field handles of the trace tells of every handle who  *)
(* opened it, whether it was opened with own_rwops, and how often it was     *)
(* closed (history, kept from call to call), the field levels0 how many      *)
(* cache levels the font had when the call started (history).                *)

\* successful calls of TTF_OpenFontRW in one behaviour
MaxOpens == 2

CallerHandles ==
    [h \in TTFs |-> [by |-> "caller", own_rwops |-> 0, closes |-> 0]]

\* TTF_CloseFont: nothing is closed through a null handle
TTF_CloseFont(handles, ttf) ==
    IF ttf = 0 THEN handles ELSE [handles EXCEPT ![ttf].closes = @ + 1]

\* FC_ClearFont and FC_FreeFont, the release of the source
ReleaseSource(f, handles) ==
    IF f.owns_ttf_source # 0 THEN TTF_CloseFont(handles, f.ttf_source) ELSE handles

\* FC_LoadFontFromTTF as its callers see it: renderer tells that the
\* renderer is not null; the result is [f, t, handles, result]
Call_LoadFontFromTTF(s, handles, renderer, ttf) ==
    IF ttf = 0 \/ ~renderer
    THEN [f |-> s.f, t |-> s.t, handles |-> handles, result |-> 0]
    ELSE CHOOSE ret \in
           {[f |-> l.f, t |-> l.t, handles |-> ReleaseSource(s.f, handles), result |-> 1] :
              l \in {FC_LoadFontFromTTF(s, ttf)}} : TRUE

\* FC_LoadFont_RW: opened tells that TTF_OpenFontRW returned a font
FC_LoadFont_RW(s, handles, renderer, opened, own_rwops) ==
    IF ~opened THEN [f |-> s.f, t |-> s.t, handles |-> handles, result |-> 0]
    ELSE CHOOSE ret \in
           {IF own_rwops # 0
            THEN [l EXCEPT !.f.owns_ttf_source = own_rwops]
            ELSE [l EXCEPT !.f.owns_ttf_source = own_rwops,
                           !.f.ttf_source = 0,
                           !.handles = TTF_CloseFont(@, l.f.ttf_source)] :
              l \in {Call_LoadFontFromTTF(
                        s, Append(handles, [by |-> "font", own_rwops |-> own_rwops,
                                            closes |-> 0]),
                        renderer, Len(handles) + 1)}} : TRUE

\* the fonts start with a short loading string set
InitOwn ==
    /\ font \in {[FC_CreateFont EXCEPT !.loading_string = str] :
                   str \in {<<TAB, 65>>, <<65, 66, 68, 69>>}}
    /\ fc_tab_width = DefaultTabWidth
    /\ packed = <<>>
    /\ call = [op |-> "FC_CreateFont", arg |-> 0, ok |-> TRUE, glyph |-> NoGlyph,
               t |-> [EmptyTrace EXCEPT !.handles = CallerHandles]]
    /\ budget = [levelSets |-> 0, glyphSets |-> 0, textOps |-> 0]

OwnLoadFontFromTTF(ttf, renderer) ==
    /\ call.op # "FC_FreeFont"
    /\ \E s \in {[f |-> font, e |-> FullEnv, t |-> EmptyTrace]} :
       \E r \in {Call_LoadFontFromTTF(s, call.t.handles, renderer, ttf)} :
         /\ font' = r.f
         /\ packed' = IF r.result = 1 THEN r.t.packed ELSE packed
         /\ call' = [op |-> "FC_LoadFontFromTTF", arg |-> ttf, ok |-> r.result = 1,
                     glyph |-> NoGlyph,
                     t |-> [r.t EXCEPT !.handles = r.handles,
                                       !.levels0 = font.glyph_cache_count]]
    /\ UNCHANGED <<fc_tab_width, budget>>

OwnLoadFont_RW(renderer, opened, own_rwops) ==
    /\ call.op # "FC_FreeFont"
    /\ Len(call.t.handles) < Cardinality(TTFs) + MaxOpens
    /\ \E s \in {[f |-> font, e |-> FullEnv, t |-> EmptyTrace]} :
       \E r \in {FC_LoadFont_RW(s, call.t.handles, renderer, opened, own_rwops)} :
         /\ font' = r.f
         /\ packed' = IF r.result = 1 THEN r.t.packed ELSE packed
         /\ call' = [op |-> "FC_LoadFont_RW", arg |-> own_rwops, ok |-> r.result = 1,
                     glyph |-> NoGlyph,
                     t |-> [r.t EXCEPT !.handles = r.handles,
                                       !.levels0 = font.glyph_cache_count]]
    /\ UNCHANGED <<fc_tab_width, budget>>

\* a lookup between the loads
OwnGetGlyphData(codepoint) ==
    /\ call.op # "FC_FreeFont"
    /\ \E s \in {[f |-> font, e |-> FullEnv, t |-> EmptyTrace]} :
       \E r \in {FC_GetGlyphData(s, codepoint)} :
         /\ font' = r.s.f
         /\ packed' = packed \o r.s.t.packed
         /\ call' = [op |-> "FC_GetGlyphData", arg |-> codepoint, ok |-> r.ok,
                     glyph |-> r.glyph,
                     t |-> [r.s.t EXCEPT !.handles = call.t.handles,
                                         !.levels0 = font.glyph_cache_count]]
    /\ UNCHANGED <<fc_tab_width, budget>>

OwnClearFont ==
    /\ call.op # "FC_FreeFont"
    /\ font' = FC_ClearFont(font)
    /\ packed' = <<>>
    /\ call' = [op |-> "FC_ClearFont", arg |-> 0, ok |-> TRUE, glyph |-> NoGlyph,
                t |-> [EmptyTrace EXCEPT !.handles = ReleaseSource(font, call.t.handles),
                                         !.levels0 = font.glyph_cache_count]]
    /\ UNCHANGED <<fc_tab_width, budget>>

\* (the font is gone after FC_FreeFont: nothing can be called on it)
OwnFreeFont ==
    /\ call.op # "FC_FreeFont"
    /\ call' = [op |-> "FC_FreeFont", arg |-> 0, ok |-> TRUE, glyph |-> NoGlyph,
                t |-> [EmptyTrace EXCEPT !.handles = ReleaseSource(font, call.t.handles)]]
    /\ UNCHANGED <<font, fc_tab_width, packed, budget>>

NextOwn ==
    \/ \E ttf \in TTFs, renderer \in BOOLEAN : OwnLoadFontFromTTF(ttf, renderer)
    \/ \E renderer \in BOOLEAN, opened \in BOOLEAN, own_rwops \in {0, 1} :
          OwnLoadFont_RW(renderer, opened, own_rwops)
    \/ \E codepoint \in Codepoints : OwnGetGlyphData(codepoint)
    \/ OwnClearFont
    \/ OwnFreeFont

SpecOwn == InitOwn /\ [][NextOwn]_vars

----------------------------------------------------------------------------
(* The glyph map on its own: nodes with distinct keys inserted into the map   *)
(* of a fresh font, and lookups.                                              *)

\* inserts in one run
MaxInserts == 4

\* 5, 305 and 605 fall in bucket 5 of a map of 300 buckets, 6 and 306 in
\* bucket 6; 905 is looked up only
MapKeys == {5, 305, 605, 6, 306}

MapLookups == MapKeys \cup {905}

MapGlyphs == {FC_MakeGlyphData(0, 3, 1, 5, 8), FC_MakeGlyphData(1, 15, 10, 6, 8)}

InitMap ==
    /\ font = FC_CreateFont
    /\ fc_tab_width = DefaultTabWidth
    /\ packed = <<>>
    /\ call = [op |-> "FC_MapCreate", arg |-> 0, ok |-> TRUE, glyph |-> NoGlyph,
               t |-> EmptyTrace]
    /\ budget = [levelSets |-> 0, glyphSets |-> 0, textOps |-> 0]

\* (packed keeps the nodes in the order they were inserted)
MapInsert(codepoint, glyph) ==
    /\ Len(packed) < MaxInserts
    /\ \A i \in DOMAIN packed : packed[i].key # codepoint
    /\ font' = [font EXCEPT !.glyphs = FC_MapInsert(@, codepoint, glyph)]
    /\ packed' = Append(packed, [key |-> codepoint, value |-> glyph])
    /\ call' = [op |-> "FC_MapInsert", arg |-> codepoint, ok |-> TRUE, glyph |-> glyph,
                t |-> EmptyTrace]
    /\ UNCHANGED <<fc_tab_width, budget>>

MapFind(codepoint) ==
    /\ call' = [op |-> "FC_MapFind", arg |-> codepoint,
                ok |-> FC_MapHas(font.glyphs, codepoint),
                glyph |-> IF FC_MapHas(font.glyphs, codepoint)
                          THEN FC_MapFind(font.glyphs, codepoint) ELSE NoGlyph,
                t |-> EmptyTrace]
    /\ UNCHANGED <<font, fc_tab_width, packed, budget>>

NextMap ==
    \/ \E c \in MapKeys, g \in MapGlyphs : MapInsert(c, g)
    \/ \E c \in MapLookups : MapFind(c)

SpecMap == InitMap /\ [][NextMap]_vars

----------------------------------------------------------------------------
(* The cache-level array on its own: a caller sets and reads levels at any   *)
(* index, on a fresh font and on a font loaded with nothing.                 *)

\* levels a font is given in one run
MaxLevels == 4

LevelTextures == {Tex(100, 100), Tex(12, 6)}

LevelIndexes(f) == -1 .. f.glyph_cache_count + 2

\* what a slot that was never written holds
Garbage == {NullTex, Wild(100, 100)}

InitLevels ==
    /\ font \in {FC_CreateFont} \cup {LoadedEmpty(ttf) : ttf \in TTFs}
    /\ fc_tab_width = DefaultTabWidth
    /\ packed = <<>>
    /\ call = [op |-> "FC_CreateFont", arg |-> 0, ok |-> TRUE, glyph |-> NoGlyph,
               t |-> [EmptyTrace EXCEPT !.levels0 = font.glyph_cache_count]]
    /\ budget = [levelSets |-> 0, glyphSets |-> 0, textOps |-> 0]

\* FC_SetGlyphCacheLevel at any index
SetLevel(cache_level, cache_texture) ==
    /\ font.glyph_cache_count < MaxLevels
    /\ \E r \in {FC_SetGlyphCacheLevel(font, cache_level, cache_texture)} :
         /\ font' = r.f
         /\ call' = [op |-> "FC_SetGlyphCacheLevel", arg |-> cache_level, ok |-> r.ok,
                     glyph |-> NoGlyph,
                     t |-> [EmptyTrace EXCEPT !.ub = r.ub,
                                              !.levels0 = font.glyph_cache_count,
                                              !.out.texture = cache_texture]]
    /\ UNCHANGED <<fc_tab_width, packed, budget>>

\* FC_GetGlyphCacheLevel at any index
GetLevel(cache_level, garbage) ==
    /\ \E s \in {[f |-> font,
                  e |-> [FullEnv EXCEPT !.garbage = garbage],
                  t |-> EmptyTrace]} :
       \E r \in {FC_GetGlyphCacheLevel(s, cache_level)} :
         call' = [op |-> "FC_GetGlyphCacheLevel", arg |-> cache_level,
                  ok |-> r.tex.kind # "null", glyph |-> NoGlyph,
                  t |-> [EmptyTrace EXCEPT !.ub = r.ub,
                                           !.levels0 = font.glyph_cache_count,
                                           !.out.texture = r.tex]]
    /\ UNCHANGED <<font, fc_tab_width, packed, budget>>

NextLevels ==
    \/ \E i \in LevelIndexes(font), texture \in LevelTextures : SetLevel(i, texture)
    \/ \E i \in LevelIndexes(font), g \in Garbage : GetLevel(i, g)

SpecLevels == InitLevels /\ [][NextLevels]_vars

----------------------------------------------------------------------------
(* Glyphs recorded more than once: a caller records glyphs for codepoints    *)
(* that may be in the map already, the preload packs a loading string in     *)
(* which a character occurs twice, and glyphs are looked up.  (packed keeps   *)
(* the nodes of the map in the order they were inserted.)                    *)

\* FC_SetGlyphData calls in one run
MaxDups == 2

\* 65 and 365 fall in the same bucket of a map of 300 buckets
DupKeys == {65, 365}

DupStrings == {<<>>, <<65, 65, 195, 169, 206, 169>>}

InitDup ==
    /\ font \in {[FC_CreateFont EXCEPT !.loading_string = str] : str \in DupStrings}
    /\ fc_tab_width = DefaultTabWidth
    /\ packed = <<>>
    /\ call = [op |-> "FC_CreateFont", arg |-> 0, ok |-> TRUE, glyph |-> NoGlyph,
               t |-> EmptyTrace]
    /\ budget = [levelSets |-> 0, glyphSets |-> 0, textOps |-> 0]

DupSetGlyphData(codepoint, glyph_data) ==
    /\ budget.glyphSets < MaxDups
    /\ font' = FC_SetGlyphData(font, codepoint, glyph_data)
    /\ packed' = Append(packed, [key |-> codepoint, value |-> glyph_data])
    /\ call' = [op |-> "FC_SetGlyphData", arg |-> codepoint, ok |-> TRUE,
                glyph |-> glyph_data, t |-> EmptyTrace]
    /\ budget' = [budget EXCEPT !.glyphSets = @ + 1]
    /\ UNCHANGED fc_tab_width

\* (the load starts with FC_ClearFont: the nodes from before are gone)
DupLoadFontFromTTF(ttf) ==
    /\ font.ttf_source = 0
    /\ \E s \in {[f |-> font, e |-> FullEnv, t |-> EmptyTrace]} :
       \E r \in {FC_LoadFontFromTTF(s, ttf)} :
         /\ font' = r.f
         /\ packed' = r.t.packed
         /\ call' = [op |-> "FC_LoadFontFromTTF", arg |-> ttf, ok |-> TRUE,
                     glyph |-> NoGlyph, t |-> r.t]
    /\ UNCHANGED <<fc_tab_width, budget>>

DupGetGlyphData(codepoint) ==
    /\ \E s \in {[f |-> font, e |-> FullEnv, t |-> EmptyTrace]} :
       \E r \in {FC_GetGlyphData(s, codepoint)} :
         /\ font' = r.s.f
         /\ packed' = packed \o r.s.t.packed
         /\ call' = [op |-> "FC_GetGlyphData", arg |-> codepoint, ok |-> r.ok,
                     glyph |-> r.glyph, t |-> r.s.t]
    /\ UNCHANGED <<fc_tab_width, budget>>

NextDup ==
    \/ \E c \in DupKeys, g \in MapGlyphs : DupSetGlyphData(c, g)
    \/ \E ttf \in TTFs : DupLoadFontFromTTF(ttf)
    \/ \E c \in DupKeys : DupGetGlyphData(c)

SpecDup == InitDup /\ [][NextDup]_vars

----------------------------------------------------------------------------
(* Wrapped text copied into a buffer of the caller: texts wrapped at several  *)
(* column widths into buffers of several sizes, with a font loaded with       *)
(* nothing or with the default string preloaded.                              *)

\* sizes of the caller's buffer
ResultSizes == {1, 5, 8, 64}

WrappedInputs ==
    {[NoInput EXCEPT !.text = text, !.column = width, !.scale = [x |-> 1, y |-> 1],
                     !.e = FullEnv] :
        text \in Texts, width \in ColumnWidths}

InitWrapped ==
    /\ font \in {LoadedEmpty(2), LoadedASCII}
    /\ fc_tab_width = DefaultTabWidth
    /\ packed = <<>>
    /\ call = [op |-> "FC_LoadFontFromTTF", arg |-> 0, ok |-> TRUE, glyph |-> NoGlyph,
               t |-> EmptyTrace]
    /\ budget = [levelSets |-> 0, glyphSets |-> 0, textOps |-> 0]

\* (arg is max_result_size)
GetWrappedText(in, max_result_size) ==
    /\ \E s \in {TextCtx(in)} :
       \E r \in {FC_GetWrappedText(s, max_result_size, in.column, in.text)} :
         /\ font' = r.s.f
         /\ packed' = packed \o r.s.t.packed
         /\ call' = [op |-> "FC_GetWrappedText", arg |-> max_result_size, ok |-> TRUE,
                     glyph |-> NoGlyph,
                     t |-> [r.s.t EXCEPT !.out.result = r.result, !.out.ret = r.ret]]
    /\ UNCHANGED <<fc_tab_width, budget>>

NextWrapped ==
    \/ \E in \in WrappedInputs, n \in ResultSizes : GetWrappedText(in, n)
    \/ \E n \in LetterSpacings : SetSpacing(n)

SpecWrapped == InitWrapped /\ [][NextWrapped]_vars

----------------------------------------------------------------------------
(* Draws in a colour: texts drawn left-aligned at scale 1 in a colour of the  *)
(* caller, with a font loaded with nothing, so that the draws cache their     *)
(* glyphs and grow the cache; between the draws the caller changes the        *)
(* default colour of the font.                                                *)

ColorInputs ==
    {[NoInput EXCEPT !.text = text, !.scale = [x |-> 1, y |-> 1], !.e = FullEnv,
                     !.color = color] :
        text \in DrawTexts, color \in Colors}

InitColor ==
    /\ font \in {LoadedEmpty(1), LoadedEmpty(2)}
    /\ fc_tab_width = DefaultTabWidth
    /\ packed = <<>>
    /\ call = [op |-> "FC_LoadFontFromTTF", arg |-> 0, ok |-> TRUE, glyph |-> NoGlyph,
               t |-> EmptyTrace]
    /\ budget = [levelSets |-> 0, glyphSets |-> 0, textOps |-> 0]

\* (levels0 is the number of cache levels when the draw started)
DrawColor(in) ==
    /\ \E s \in {TextCtx(in)} :
       \E r \in {FC_DrawColor(s, DrawX, DrawY, in.color, in.text)} :
         /\ font' = r.s.f
         /\ packed' = packed \o r.s.t.packed
         /\ call' = [op |-> "FC_DrawColor", arg |-> 0, ok |-> TRUE, glyph |-> NoGlyph,
                     t |-> [r.s.t EXCEPT !.out.dirtyRect = r.result,
                                         !.levels0 = font.glyph_cache_count]]
    /\ UNCHANGED <<fc_tab_width, budget>>

SetDefaultColor(color) ==
    /\ font.default_color # color
    /\ font' = FC_SetDefaultColor(font, color)
    /\ call' = [op |-> "FC_SetDefaultColor", arg |-> 0, ok |-> TRUE, glyph |-> NoGlyph,
                t |-> EmptyTrace]
    /\ UNCHANGED <<fc_tab_width, packed, budget>>

NextColor ==
    \/ \E in \in ColorInputs : DrawColor(in)
    \/ \E color \in Colors : SetDefaultColor(color)

SpecColor == InitColor /\ [][NextColor]_vars

----------------------------------------------------------------------------
(* Stepping through a text: U8_strlen and the loops of FC_GetWidth and       *)
(* FC_RenderLeft on byte strings of every shape, well-formed or cut in the   *)
(* middle of a character.                                                    *)

\* an ASCII letter, a lead byte of two bytes, a continuation byte, and lead
\* bytes of three and of four bytes
IterBytes == {65, 195, 169, 226, 240}

\* the empty string, every string of one and of two of the bytes, and
\* characters of three and four bytes, whole and cut short
IterTexts ==
    {<<>>}
      \cup {<<a>> : a \in IterBytes}
      \cup {<<a, b>> : a \in IterBytes, b \in IterBytes}
      \cup {<<226, 130, 172>>, <<65, 226, 130>>, <<240, 159, 152, 128>>,
            <<240, 159, 152>>, <<65, 195, 169>>, <<195, 169, 65>>}

IterInputs ==
    {[NoInput EXCEPT !.text = text, !.scale = [x |-> 1, y |-> 1], !.e = FullEnv] :
        text \in IterTexts}

\* U8_strlen, the loop from position c on, U8_next and U8_charsize in it;
\* the positions the cursor stood on are kept as history
RECURSIVE StrlenFrom(_, _, _, _)
StrlenFrom(s, string, c, length) ==
    IF ByteAt(string, c) = 0
    THEN [s |-> [s EXCEPT !.t.ub = @ \/ c > Len(string) + 1], length |-> length]
    ELSE StrlenFrom([s EXCEPT !.t.chars =
                        Append(@, CharLogEntry("U8_strlen", c,
                                               FC_GetCodepointFromUTF8(string, c),
                                               [ok |-> FALSE, spaceOk |-> FALSE,
                                                glyph |-> NoGlyph], 0, FALSE))],
                    string, c + U8_charsize(string, c), length + 1)

U8_strlen(s, string) == StrlenFrom(s, string, 1, 0)

InitIter ==
    /\ font = LoadedASCII
    /\ fc_tab_width = DefaultTabWidth
    /\ packed = <<>>
    /\ call = [op |-> "FC_LoadFontFromTTF", arg |-> 0, ok |-> TRUE, glyph |-> NoGlyph,
               t |-> EmptyTrace]
    /\ budget = [levelSets |-> 0, glyphSets |-> 0, textOps |-> 0]

Strlen(in) ==
    /\ TextBudget("U8_strlen", in)
    /\ \E s \in {TextCtx(in)} : \E r \in {U8_strlen(s, in.text)} :
         call' = [op |-> "U8_strlen", arg |-> r.length, ok |-> TRUE, glyph |-> NoGlyph,
                  t |-> [r.s.t EXCEPT !.out.ret = r.length]]
    /\ UNCHANGED <<font, fc_tab_width, packed>>

NextIter ==
    \/ \E in \in IterInputs : Strlen(in)
    \/ \E in \in IterInputs : GetWidth(in)
    \/ \E in \in IterInputs : RenderLeft(in)

SpecIter == InitIter /\ [][NextIter]_vars

----------------------------------------------------------------------------
(* Properties *)

LastOpIs(name) == call.op = name

\* two glyph rectangles of the same cache level share at least one pixel
Overlap(a, b) ==
    /\ a.cache_level = b.cache_level
    /\ a.rect.x < b.rect.x + b.rect.w /\ b.rect.x < a.rect.x + a.rect.w
    /\ a.rect.y < b.rect.y + b.rect.h /\ b.rect.y < a.rect.y + a.rect.h

\* the nodes of a map, each with its bucket and its position in the chain
Nodes(map) ==
    UNION {{[bucket |-> b, pos |-> i, node |-> map.buckets[b][i]] :
               i \in 1..Len(map.buckets[b])} : b \in DOMAIN map.buckets}

InMap(map, codepoint) == \E n \in Nodes(map) : n.node.key = codepoint

\* every node of old is still in new, at its place and with its value
MapKept(old, new) == Nodes(old) \subseteq Nodes(new)

\* the cache grew between two pack attempts of the last call
GrewIn(t) ==
    \E i, j \in DOMAIN t.packLog : t.packLog[j].pre.count > t.packLog[i].pre.count

\* C1: no two glyph rectangles recorded by the packer on the same cache level
\* overlap, over preloads (also one that hits the surface limit) and on-demand
\* caching calls.  (Stated for fonts whose levels were all created by the font
\* itself and for calls that read no slot that was never written.)
C1_PackedRectsDisjoint ==
    (budget.levelSets = 0 /\ ~call.t.ub) =>
        \A i, j \in 1..Len(packed) :
            i < j => ~Overlap(packed[i].value, packed[j].value)

\* C2: an on-demand caching call that grows the cache leaves every node that
\* was in the glyph map before the call in place, with the same cache level and
\* the same rectangle.
C2_GrowthKeepsEarlierRects ==
    [][(call'.op = "FC_GetGlyphData" /\ call'.t.growLog # <<>>
        /\ font'.glyph_cache_count > font.glyph_cache_count)
       => MapKept(font.glyphs, font'.glyphs)]_vars

C2_Witness ==
    /\ LastOpIs("FC_GetGlyphData")
    /\ call.ok
    /\ GrewIn(call.t)
    /\ Len(packed) > Len(call.t.packed)
    /\ call.t.packed # <<>>

\* the pack attempts of the last call, in the order they returned
PackLog == call.t.packLog

\* a glyph of this width fits in the row behind a cursor at x whose last
\* glyph is w wide, in a level maxWidth wide
FitsRow(x, w, width, maxWidth) == x + w + width < maxWidth - FC_CACHE_PADDING

\* a glyph of this width fits in an empty row of a level maxWidth wide
FitsEmptyRow(width, maxWidth) == FitsRow(FC_CACHE_PADDING, 0, width, maxWidth)

\* the level has room for one more row below the row of the cursor
RowBelow(e) ==
    e.at.rect.y + 2 * (e.height + FC_CACHE_PADDING) < e.maxHeight - FC_CACHE_PADDING

\* the glyph of pack attempt e fits neither in the current row nor in a
\* fresh row of the level
FitsNowhere(e) ==
    /\ ~FitsRow(e.at.rect.x, e.at.rect.w, e.width, e.maxWidth)
    /\ ~(RowBelow(e) /\ FitsEmptyRow(e.width, e.maxWidth))

\* the last call was FC_GetGlyphData and every pack attempt in it was for the
\* requested codepoint (no space glyph was cached on the way for a TAB)
PlainRequest ==
    /\ LastOpIs("FC_GetGlyphData")
    /\ PackLog # <<>>
    /\ \A i \in DOMAIN PackLog : PackLog[i].codepoint = call.arg

\* C3: a pack attempt for a glyph that fits neither in the current row nor in
\* a fresh row of the level fails, leaves the cursor at the top-left margin of
\* the level numbered by the level count, and changes neither the glyph map
\* nor the level count.
C3_ExhaustedPackFails ==
    \A i \in DOMAIN PackLog :
        LET e == PackLog[i] IN
        FitsNowhere(e) =>
            /\ ~e.ok
            /\ e.post.last_glyph.cache_level = e.pre.count
            /\ e.post.last_glyph.rect.x = FC_CACHE_PADDING
            /\ e.post.last_glyph.rect.y = FC_CACHE_PADDING
            /\ e.mapSame
            /\ e.post.count = e.pre.count

\* C4: an on-demand caching call that finds the level exhausted and whose
\* growth creates the texture appends exactly one level, packs exactly once
\* more, and records the glyph on the new level.  (Stated for a glyph that
\* fits in an empty row of the level the growth creates.)
C4_GrowthThenRecorded ==
    (/\ PlainRequest
     /\ ~call.t.ub
     /\ ~PackLog[1].ok
     /\ FitsEmptyRow(PackLog[1].width, font.height * LevelFactor)
     /\ call.t.growLog # <<>>
     /\ \A i \in DOMAIN call.t.growLog : call.t.growLog[i].created)
    => /\ Len(call.t.growLog) = 1
       /\ font.glyph_cache_count = PackLog[1].pre.count + 1
       /\ Len(PackLog) = 2
       /\ call.ok
       /\ call.glyph.cache_level = PackLog[1].pre.count
       /\ \E n \in Nodes(font.glyphs) :
             n.node.key = call.arg /\ n.node.value = call.glyph

\* C5: an on-demand caching call that finds the level exhausted and whose
\* growth fails returns 0 and leaves the requested codepoint out of the glyph
\* map.  (Stated for a glyph that fits in an empty row of the level.)
C5_NoGrowthNoGlyph ==
    (/\ PlainRequest
     /\ ~PackLog[1].ok
     /\ FitsEmptyRow(PackLog[1].width, PackLog[1].maxWidth)
     /\ call.t.growLog # <<>>
     /\ ~call.t.growLog[1].ok)
    => /\ ~call.ok
       /\ ~InMap(font.glyphs, call.arg)

\* C6: a glyph too wide for an empty row of the level is recorded by no pack
\* attempt, and FC_GetGlyphData returns 0 for it.
C6_TooWideNeverRecorded ==
    /\ \A i \in DOMAIN PackLog :
          ~FitsEmptyRow(PackLog[i].width, PackLog[i].maxWidth) => ~PackLog[i].ok
    /\ (PlainRequest /\ ~FitsEmptyRow(PackLog[1].width, PackLog[1].maxWidth))
          => ~call.ok

\* the glyph FC_MapFind returns for a codepoint of the map: the value of the
\* first node with this key in its chain
Stored(map, codepoint) ==
    LET hits == {n \in Nodes(map) : n.node.key = codepoint}
    IN  (CHOOSE n \in hits : \A m \in hits : n.pos <= m.pos).node.value

\* the rasterizer has no glyph for this codepoint
NoRaster(ttf, codepoint) ==
    TTF_RenderUTF8_Blended(ttf, FC_GetUTF8FromCodepoint(codepoint)) < 0

\* C9: FC_GetGlyphData for a codepoint already in the glyph map returns 1 and
\* the stored glyph, leaves the whole font (glyph map, cursor, cache levels) as
\* it was, and asks for no rasterization and no packing; a repeated call hence
\* returns the same rectangle.
C9_HitChangesNothing ==
    [][(call'.op = "FC_GetGlyphData" /\ InMap(font.glyphs, call'.arg))
       => /\ call'.ok
          /\ call'.glyph = Stored(font.glyphs, call'.arg)
          /\ font' = font
          /\ call'.t.nRaster = 0
          /\ call'.t.nPack = 0
          /\ Stored(font'.glyphs, call'.arg) = call'.glyph]_vars

C9_Witness ==
    /\ LastOpIs("FC_GetGlyphData")
    /\ call.ok
    /\ call.t.nRaster = 0
    /\ InMap(font.glyphs, call.arg)
    /\ call.glyph = Stored(font.glyphs, call.arg)
    /\ call.glyph.rect.w > 0

\* C10: FC_GetGlyphData for a codepoint that is not in the glyph map, on a
\* font without a rasterizer source or when the rasterizer has no glyph for
\* it, returns 0 and leaves the glyph map, the cursor and the cache levels as
\* they were.
C10_NoGlyphNoChange ==
    [][(/\ call'.op = "FC_GetGlyphData"
        /\ ~InMap(font.glyphs, call'.arg)
        /\ (font.ttf_source = 0 \/ NoRaster(font.ttf_source, call'.arg)))
       => /\ ~call'.ok
          /\ font'.glyphs = font.glyphs
          /\ font'.last_glyph = font.last_glyph
          /\ font'.glyph_cache = font.glyph_cache
          /\ font'.glyph_cache_count = font.glyph_cache_count
          /\ font'.glyph_cache_size = font.glyph_cache_size]_vars

\* a failed call on a loaded font whose rasterizer was asked and had no glyph
C10_Witness ==
    /\ LastOpIs("FC_GetGlyphData")
    /\ ~call.ok
    /\ font.ttf_source # 0
    /\ NoRaster(font.ttf_source, call.arg)
    /\ call.t.nRaster = 1
    /\ call.t.nPack = 0
    /\ Len(packed) > 0

\* glyph number i of packed lies in the row of glyph number i - 1
SameRow(i) ==
    /\ i > 1
    /\ packed[i].value.cache_level = packed[i - 1].value.cache_level
    /\ packed[i].value.rect.y = packed[i - 1].value.rect.y

\* the first three glyphs packed are 10 wide and lie in a level 100 wide
ThreeOfTen ==
    /\ Len(packed) >= 3
    /\ font.glyph_cache[1] = Tex(100, 100)
    /\ \A i \in 1..3 : packed[i].value.rect.w = 10 /\ packed[i].value.cache_level = 0

\* C7: the first glyph of a row is recorded at x = margin + 2 and each
\* further glyph of the row at the x of the glyph before it plus that glyph's
\* width plus margin + 1; three glyphs of width 10 in a level 100 wide, with
\* margin 1, are recorded at x = 3, 15 and 27.
C7_RowPlacement ==
    /\ \A i \in 1..Len(packed) :
          packed[i].value.rect.x =
             IF SameRow(i)
             THEN packed[i - 1].value.rect.x + packed[i - 1].value.rect.w
                  + FC_CACHE_PADDING + 1
             ELSE FC_CACHE_PADDING + 2
    /\ ThreeOfTen =>
          /\ packed[1].value.rect.x = 3
          /\ packed[2].value.rect.x = 15
          /\ packed[3].value.rect.x = 27

C7_Witness ==
    /\ ThreeOfTen
    /\ \A i \in 2..3 : SameRow(i)

\* C7 as first stated: the first glyph at x = margin, each further glyph of
\* the row at the previous x plus width plus margin; x = 1, 12 and 23 in the
\* example.
C7_Original ==
    /\ \A i \in 1..Len(packed) :
          packed[i].value.rect.x =
             IF SameRow(i)
             THEN packed[i - 1].value.rect.x + packed[i - 1].value.rect.w
                  + FC_CACHE_PADDING
             ELSE FC_CACHE_PADDING
    /\ ThreeOfTen =>
          /\ packed[1].value.rect.x = 1
          /\ packed[2].value.rect.x = 12
          /\ packed[3].value.rect.x = 23

\* pack attempt e found no room in the current row but room for a row below
NewRow(e) ==
    /\ ~FitsRow(e.at.rect.x, e.at.rect.w, e.width, e.maxWidth)
    /\ RowBelow(e)

\* C8: a glyph that does not fit in the current row while the level has room
\* for a row below is recorded at x = margin + 2, one line height plus the
\* margin below the current row; below the first row of a level that is
\* y = lineHeight + 2 (with margin 1).
C8_NewRowPlacement ==
    \A i \in DOMAIN PackLog :
        LET e == PackLog[i] IN
        NewRow(e) =>
            /\ e.ok
            /\ e.glyph.cache_level = e.at.cache_level
            /\ e.glyph.rect.x = FC_CACHE_PADDING + 2
            /\ e.glyph.rect.y = e.at.rect.y + e.height + FC_CACHE_PADDING
            /\ (e.at.rect.y = FC_CACHE_PADDING /\ FC_CACHE_PADDING = 1)
                  => e.glyph.rect.y = e.height + 2

\* a glyph 90 wide behind three glyphs 10 wide, moved to the second row
C8_Witness ==
    /\ ThreeOfTen
    /\ Len(packed) >= 4
    /\ packed[4].value.rect.w = 90
    /\ LastOpIs("FC_PackGlyphData")
    /\ PackLog # <<>>
    /\ NewRow(PackLog[1])
    /\ PackLog[1].at.rect.y = FC_CACHE_PADDING
    /\ PackLog[1].ok

\* C8 as first stated: the new row starts at x = margin, the first new row of
\* a level at y = lineHeight + 1.
C8_Original ==
    \A i \in DOMAIN PackLog :
        LET e == PackLog[i] IN
        NewRow(e) =>
            /\ e.ok
            /\ e.glyph.rect.x = FC_CACHE_PADDING
            /\ e.at.rect.y = FC_CACHE_PADDING => e.glyph.rect.y = e.height + 1

\* the positions at which the characters of a string start, from byte i on
RECURSIVE CharStarts(_, _)
CharStarts(str, i) ==
    IF ByteAt(str, i) = 0 THEN {}
    ELSE {i} \cup CharStarts(str, i + U8_charsize(str, i))

\* the bytes of the character that starts at byte i
CharAt(str, i) == CStr([k \in 1..U8_charsize(str, i) |-> ByteAt(str, i + k - 1)])

\* the codepoints of a string for which the rasterizer of ttf has a glyph
RenderableIn(str, ttf) ==
    {FC_GetCodepointFromUTF8(CharAt(str, i), 1) :
       i \in {j \in CharStarts(str, 1) :
                TTF_RenderUTF8_Blended(ttf, CharAt(str, j)) >= 0}}

\* the same, tabulated for the loading strings and the fonts of the model
RenderableTable ==
    [str \in LoadingStrings |-> [ttf \in TTFs |-> RenderableIn(str, ttf)]]

\* the codepoints of the loading string of a loaded font for which its
\* rasterizer has a glyph
Renderable(f) == RenderableTable[f.loading_string][f.ttf_source]

\* every codepoint of the loading string that can be rendered is in the map
AllLoaded(f) == \A c \in Renderable(f) : FC_MapHas(f.glyphs, c)

\* C11: after a preload that did not hit the surface limit every codepoint of
\* the loading string that the rasterizer can render is in the glyph map; it
\* stays there until the font is cleared, and FC_GetGlyphData for it returns 1
\* without rasterizing or packing.
C11_PreloadedAreCached ==
    [][/\ (call'.op = "FC_LoadFontFromTTF" /\ ~call'.t.hitLimit) => AllLoaded(font')
       /\ (/\ font.ttf_source # 0
           /\ call'.op # "FC_ClearFont"
           /\ font'.glyphs # font.glyphs
           /\ AllLoaded(font))
             => AllLoaded(font')
       /\ (/\ font.ttf_source # 0
           /\ call'.op = "FC_GetGlyphData"
           /\ call'.arg \in Renderable(font)
           /\ FC_MapHas(font.glyphs, call'.arg))
             => /\ call'.ok
                /\ call'.t.nRaster = 0
                /\ call'.t.nPack = 0]_vars

\* the default loading string preloaded from the larger font fills one level
\* and goes on in a second one; a glyph of it is then asked for
C11_Witness ==
    /\ LastOpIs("FC_GetGlyphData")
    /\ font.height = 8
    /\ font.loading_string = FC_GetStringASCII
    /\ font.glyph_cache_count = 2
    /\ Len(packed) = 95
    /\ call.arg \in Renderable(font)
    /\ call.ok
    /\ call.t.nRaster = 0

\* C12: a preload blits onto at most FC_LOAD_MAX_SURFACES surfaces; one whose
\* loading string needs more stops at the glyph that did not fit, still
\* returns 1, leaves at most FC_LOAD_MAX_SURFACES cache levels, and every
\* glyph packed before is in the glyph map.
C12_SurfaceLimit ==
    LastOpIs("FC_LoadFontFromTTF") =>
        /\ \A i \in DOMAIN call.t.blits : call.t.blits[i].surface < FC_LOAD_MAX_SURFACES
        /\ call.t.hitLimit =>
              /\ call.ok
              /\ font.glyph_cache_count <= FC_LOAD_MAX_SURFACES
              /\ ~PackLog[Len(PackLog)].ok
              /\ Len(call.t.blits) = Len(packed)
              /\ \A i \in DOMAIN packed :
                    \E n \in Nodes(font.glyphs) : n.node = packed[i]

\* the smaller font, four glyphs to a level: the default loading string stops
\* after ten levels
C12_Witness ==
    /\ LastOpIs("FC_LoadFontFromTTF")
    /\ call.t.hitLimit
    /\ font.glyph_cache_count = FC_LOAD_MAX_SURFACES
    /\ Len(packed) >= 4 * FC_LOAD_MAX_SURFACES
    /\ Len(packed) < Cardinality(Renderable(font))

\* C13: after every operation the glyph map holds at most one node per
\* codepoint.  (Stated for calls that read no slot that was never written.)
C13_OneEntryPerCodepoint ==
    ~call.t.ub =>
        \A n, m \in Nodes(font.glyphs) : n.node.key = m.node.key => n = m

\* the nodes inserted so far with this key
Inserted(codepoint) == {i \in DOMAIN packed : packed[i].key = codepoint}

\* C14: after any sequence of inserts of distinct codepoints, also of
\* codepoints that fall in the same bucket, FC_MapFind returns for each
\* inserted codepoint the glyph inserted for it and nullptr for a codepoint
\* that was never inserted.
C14_FindReturnsInserted ==
    /\ \A c \in MapLookups :
          IF Inserted(c) = {}
          THEN ~FC_MapHas(font.glyphs, c)
          ELSE /\ FC_MapHas(font.glyphs, c)
               /\ \A i \in Inserted(c) : FC_MapFind(font.glyphs, c) = packed[i].value
    /\ LastOpIs("FC_MapFind") =>
          /\ call.ok = (Inserted(call.arg) # {})
          /\ \A i \in Inserted(call.arg) : call.glyph = packed[i].value

\* the third key of bucket 5 found behind the two inserted before it
C14_Witness ==
    /\ LastOpIs("FC_MapFind")
    /\ call.arg = 605
    /\ call.ok
    /\ Len(Bucket(font.glyphs, 5)) = 3
    /\ Bucket(font.glyphs, 5)[3].key = 605
    /\ call.glyph = Bucket(font.glyphs, 5)[3].value
    /\ call.glyph # Bucket(font.glyphs, 5)[1].value
    /\ ~FC_MapHas(font.glyphs, 905)

----------------------------------------------------------------------------
(* Word wrap *)

WrapDone == call.op = "FC_GetBufferFitToColumn" /\ ~call.t.ub

\* FC_GetWidth of a text with the font as it is now
Measure(text) ==
    FC_GetWidth([f |-> font, e |-> FullEnv, t |-> EmptyTrace], text).width

\* a line without the separator at its end, if it has one
WithoutSeparator(value) ==
    IF Len(value) > 0 /\ value[Len(value)] \in {SPACE, TAB}
    THEN SubSeq(value, 1, Len(value) - 1)
    ELSE value

\* the lines of the last wrap that hold more than one word, and those of the
\* paragraphs that were not wrapped
SeveralWords ==
    {i \in 1..Len(call.t.out.lines) :
        call.t.out.lines[i].wrapped /\ Len(call.t.out.lines[i].words) >= 2}

NotWrapped == {i \in 1..Len(call.t.out.lines) : ~call.t.out.lines[i].wrapped}

\* C15 (as stated): with a column width W > 0, every line the wrap produces
\* other than a line of a single word measures at most W.
C15_LinesFitColumn ==
    (WrapDone /\ call.t.in.column > 0)
      => \A i \in SeveralWords \cup NotWrapped :
           Measure(call.t.out.lines[i].value) <= call.t.in.column

\* C15 (amended): with a column width W > 0, every line of more than one word
\* measures at most W without the separator at its end, and every line of a
\* paragraph that was not wrapped measures at most W.
C15_LinesFitColumnWithoutSeparator ==
    (WrapDone /\ call.t.in.column > 0)
      => /\ \A i \in SeveralWords :
              Measure(WithoutSeparator(call.t.out.lines[i].value)) <= call.t.in.column
         /\ \A i \in NotWrapped :
              Measure(call.t.out.lines[i].value) <= call.t.in.column

\* a line of two words that fills the column exactly and, with its separator,
\* is wider than the column
C15_Witness ==
    /\ WrapDone /\ call.t.in.column > 0
    /\ \E i \in SeveralWords :
         /\ Measure(WithoutSeparator(call.t.out.lines[i].value)) = call.t.in.column
         /\ Measure(call.t.out.lines[i].value) > call.t.in.column

\* C16: no line of a wrapped paragraph is empty.
C16_NoEmptyLine ==
    WrapDone => \A i \in 1..Len(call.t.out.lines) :
                  call.t.out.lines[i].wrapped => call.t.out.lines[i].value # <<>>

\* the comparisons the last wrap made, line plus word against the column
Wraps == {call.t.wraps[k] : k \in 1..Len(call.t.wraps)}

LineValues == [i \in 1..Len(call.t.out.lines) |-> call.t.out.lines[i].value]

\* C17: the wrap breaks a line only when the line with the next word is
\* wider than the column: a word that makes the line exactly as wide as the
\* column is put on it; a flushed line ends with its separator; and
\* "The quick brown fox" in a column as wide as "The quick" gives the lines
\* "The quick " and "brown fox".
C17_BreakOnStrictOverflow ==
    (WrapDone /\ call.t.in.column > 0)
      => /\ \A x \in Wraps :
              /\ x.flushed <=> x.measured > call.t.in.column
              /\ x.flushed =>
                    /\ \E i \in 1..Len(call.t.out.lines) : LineValues[i] = x.line
                    /\ x.line # <<>> /\ x.line[Len(x.line)] \in {SPACE, TAB}
              /\ ~x.flushed =>
                    \E i \in 1..Len(call.t.out.lines) :
                       /\ Len(LineValues[i]) >= Len(x.line \o x.word)
                       /\ SubSeq(LineValues[i], 1, Len(x.line \o x.word)) = x.line \o x.word
         /\ (/\ call.t.in.text = TextFox
             /\ call.t.in.column = Measure(SubSeq(TextFox, 1, 9)))
              => LineValues = <<SubSeq(TextFox, 1, 10), SubSeq(TextFox, 11, 19)>>

C17_Witness ==
    /\ WrapDone /\ call.t.in.text = TextFox
    /\ call.t.in.column = Measure(SubSeq(TextFox, 1, 9))
    /\ \E x \in Wraps : x.measured = call.t.in.column /\ ~x.flushed
                          /\ x.word = SubSeq(TextFox, 5, 9)
    /\ LineValues = <<SubSeq(TextFox, 1, 10), SubSeq(TextFox, 11, 19)>>

RECURSIVE WordsOf(_)
WordsOf(lines) ==
    IF lines = <<>> THEN <<>> ELSE Head(lines).words \o WordsOf(Tail(lines))

\* C18: a word wider than the column is the only word of its line and is
\* whole on it, with nothing but its separator behind it; and the lines of a
\* wrapped text of one paragraph hold every word of the text, in order.
C18_LongWordAlone ==
    (WrapDone /\ call.t.in.column > 0)
      => /\ \A i \in 1..Len(call.t.out.lines) :
              \A k \in 1..Len(call.t.out.lines[i].words) :
                 Measure(call.t.out.lines[i].words[k]) > call.t.in.column
                   => /\ call.t.out.lines[i].words = <<call.t.out.lines[i].words[k]>>
                      /\ WithoutSeparator(LineValues[i]) = call.t.out.lines[i].words[k]
                      /\ Len(LineValues[i]) <= Len(call.t.out.lines[i].words[k]) + 1
         /\ (~HasOf(call.t.in.text, {NEWLINE}) /\ call.t.out.lines[1].wrapped)
              => WordsOf(call.t.out.lines) = FC_ExplodeBreakingSpace(call.t.in.text).words

\* a word wider than the column between two other words: three lines
C18_Witness ==
    /\ WrapDone /\ call.t.in.column > 0
    /\ Len(call.t.out.lines) = 3
    /\ call.t.out.lines[1].words = <<SubSeq(TextLongWord, 1, 2)>>
    /\ call.t.out.lines[2].words = <<SubSeq(TextLongWord, 4, 9)>>
    /\ call.t.out.lines[3].words = <<SubSeq(TextLongWord, 11, 12)>>
    /\ Measure(SubSeq(TextLongWord, 4, 9)) > call.t.in.column
    /\ Measure(SubSeq(TextLongWord, 1, 2)) <= call.t.in.column

\* C19: a wrap run again at once, with the same font, text and column width,
\* gives the same lines as the run before, whatever the run before cached.
C19_WrapTwiceSame ==
    [][(/\ call.op = "FC_GetBufferFitToColumn" /\ ~call.t.ub
        /\ call'.op = "FC_GetBufferFitToColumn" /\ ~call'.t.ub
        /\ call'.t.in = call.t.in)
         => LineValues' = LineValues]_vars

\* the second of two runs, of several lines: the first run cached glyphs and
\* grew the cache, the second found every glyph cached
C19_Witness ==
    /\ WrapDone /\ budget.textOps = 1 /\ budget.glyphSets = 0
    /\ Len(packed) > 0 /\ call.t.nPack = 0
    /\ font.glyph_cache_count >= 2
    /\ Len(call.t.out.lines) >= 2

----------------------------------------------------------------------------
(* Characters without glyph *)

\* the positions of a text where a character other than the newline starts
Starts(text) ==
    {i \in 1..Len(text) : text[i] \notin 128..191 /\ text[i] # NEWLINE}

\* the advances logged for the characters at the positions from..to
RECURSIVE AdvBetween(_, _, _)
AdvBetween(log, from, to) ==
    IF log = <<>> THEN 0
    ELSE (IF Head(log).pos \in from..to THEN Head(log).adv ELSE 0)
           + AdvBetween(Tail(log), from, to)

\* the first and the last position of each line of a text
LineSpans(text) ==
    {<<p, q>> \in (1..(Len(text) + 1)) \X (0..Len(text)) :
        /\ p = 1 \/ text[p - 1] = NEWLINE
        /\ q >= p - 1
        /\ q = Len(text) \/ text[q + 1] = NEWLINE
        /\ \A i \in p..q : text[i] # NEWLINE}

\* the advance of a space in the operation the log entry is of
SpaceAdvance(x) ==
    IF x.fn = "FC_GetWidth" THEN FC_MapFind(font.glyphs, SPACE).rect.w
    ELSE FC_MapFind(font.glyphs, SPACE).rect.w * call.t.in.scale.x
           + font.letterSpacing * call.t.in.scale.x

\* C20: in FC_GetWidth and in a FC_RenderLeft that draws, a character whose
\* glyph lookup fails advances as a space does (the width of the space glyph;
\* in the draw times the scale, plus the letter spacing as for every
\* character) and is not drawn; if the lookup of the space fails too it
\* advances by nothing and is not drawn; and every character of the text is
\* processed, once and in order: the width and the cursor returned are made
\* of the advances of all of them.
C20_MissingGlyphFallsBackToSpace ==
    (/\ call.op \in {"FC_GetWidth", "FC_RenderLeft"} /\ ~call.t.ub
     /\ call.op = "FC_RenderLeft" => font.glyph_cache_count > 0)
      => /\ \A k \in 1..Len(call.t.chars) :
              ~call.t.chars[k].ok =>
                 /\ ~call.t.chars[k].drawn
                 /\ call.t.chars[k].spaceOk =>
                      /\ FC_MapHas(font.glyphs, SPACE)
                      /\ call.t.chars[k].adv = SpaceAdvance(call.t.chars[k])
                 /\ ~call.t.chars[k].spaceOk => call.t.chars[k].adv = 0
         /\ Len(call.t.chars) = Cardinality(Starts(call.t.in.text))
         /\ {call.t.chars[k].pos : k \in 1..Len(call.t.chars)} = Starts(call.t.in.text)
         /\ \A k \in 1..Len(call.t.chars) : call.t.chars[k].fn = call.op
         /\ \A j, k \in 1..Len(call.t.chars) :
              j < k => call.t.chars[j].pos < call.t.chars[k].pos
         /\ Len(call.t.draws) = Cardinality({k \in 1..Len(call.t.chars) : call.t.chars[k].drawn})
         /\ call.op = "FC_GetWidth" =>
              /\ \A sp \in LineSpans(call.t.in.text) :
                    call.t.out.width >= AdvBetween(call.t.chars, sp[1], sp[2])
              /\ \E sp \in LineSpans(call.t.in.text) :
                    call.t.out.width = AdvBetween(call.t.chars, sp[1], sp[2])
         /\ call.op = "FC_RenderLeft" =>
              \E sp \in LineSpans(call.t.in.text) :
                 /\ sp[2] = Len(call.t.in.text)
                 /\ call.t.out.destX = AdvBetween(call.t.chars, sp[1], sp[2])

\* a draw at scale 2 with letter spacing, of a text with a character without
\* glyph in the middle: the character advances as a space and is not drawn,
\* the characters behind it are drawn
C20_Witness ==
    /\ call.op = "FC_RenderLeft" /\ ~call.t.ub /\ call.t.in.text = TextMixed
    /\ call.t.in.scale.x = 2 /\ font.letterSpacing = 2
    /\ \E k \in 1..Len(call.t.chars) :
         /\ ~call.t.chars[k].ok /\ call.t.chars[k].spaceOk
         /\ call.t.chars[k].adv = 2 * FC_MapFind(font.glyphs, SPACE).rect.w + 4
         /\ call.t.chars[k].adv > 4
         /\ \E j \in (k + 1)..Len(call.t.chars) : call.t.chars[j].drawn

----------------------------------------------------------------------------
(* Draws *)

DrawDone == call.op = "FC_DrawEffect" /\ ~call.t.ub

Newlines(text) == {i \in 1..Len(text) : text[i] = NEWLINE}

\* C21: in a draw of any alignment the y-cursor starts at the anchor and
\* every newline of the text moves it down by the scaled line height plus
\* the scaled line spacing.
C21_NewlineAdvance ==
    DrawDone
      => /\ Len(call.t.ys) = 1 + Cardinality(Newlines(call.t.in.text))
         /\ call.t.ys[1] = DrawY
         /\ \A k \in 1..(Len(call.t.ys) - 1) :
              call.t.ys[k + 1] - call.t.ys[k]
                = font.height * call.t.in.scale.y + font.lineSpacing * call.t.in.scale.y

\* rectangle D contains rectangle R
Contains(D, R) ==
    /\ D.x <= R.x /\ R.x + R.w <= D.x + D.w
    /\ D.y <= R.y /\ R.y + R.h <= D.y + D.h

\* C22: the rectangle a draw returns contains the destination rectangle of
\* every glyph the draw has drawn.
C22_DirtyRectContainsGlyphs ==
    DrawDone => \A k \in 1..Len(call.t.draws) :
                   Contains(call.t.out.dirtyRect, call.t.draws[k].dr)

----------------------------------------------------------------------------
(* Box draws *)

BoxDone == call.op = "FC_DrawBoxEffect" /\ ~call.t.ub

\* the pixels of a rectangle
Points(R) == {<<x, y>> : x \in R.x..(R.x + R.w - 1), y \in R.y..(R.y + R.h - 1)}

\* the clip of the renderer when the call started, and the first clip the call set
ClipBefore == call.t.ren0.clip

ClipInstalled == call.t.clips[1]

\* C23: a box draw first sets a clip that lets through the pixels of the box
\* that the clip before let through (all pixels of the box when there was no
\* clip), every glyph of the call is drawn under that clip, and when the call
\* returns the renderer has the clip it had before: the same rectangle, or
\* no clip.
C23_BoxClipInstalledAndRestored ==
    BoxDone
      => /\ ClipInstalled.enabled
         /\ Points(ClipInstalled.rect)
              = IF ClipBefore.enabled
                THEN Points(ClipBefore.rect) \cap Points(call.t.in.box)
                ELSE Points(call.t.in.box)
         /\ \A k \in 1..Len(call.t.draws) : call.t.draws[k].clip = ClipInstalled
         /\ call.t.ren.clip = ClipBefore

\* a box draw on a texture of the caller with a clip the box overlaps in part,
\* during which a glyph was cached and glyphs were drawn
C23_Witness ==
    /\ BoxDone
    /\ ClipBefore.enabled
    /\ call.t.in.e.ren.target = CallerTarget
    /\ Points(ClipInstalled.rect) # {}
    /\ ClipInstalled.rect # call.t.in.box
    /\ ClipInstalled.rect # ClipBefore.rect
    /\ Len(call.t.uploads) > 0
    /\ Len(call.t.draws) > 0

----------------------------------------------------------------------------
(* The render target *)

\* C24: when an operation returns, the render target is the one that was
\* current when it was called; within the operation every switch of the
\* target to a texture is followed by a switch back to that target.
C24_RenderTargetRestored ==
    /\ call.t.ren.target = call.t.ren0.target
    /\ Len(call.t.targets) % 2 = 0
    /\ \A k \in 1..Len(call.t.targets) :
         k % 2 = 0 => call.t.targets[k] = call.t.ren0.target

\* a lookup on a texture of the caller that grew the cache and uploaded the
\* glyph to the new level
C24_Witness ==
    /\ call.op = "FC_GetGlyphData"
    /\ call.ok
    /\ call.t.ren0.target = CallerTarget
    /\ call.t.growLog # <<>>
    /\ call.t.uploads # <<>>
    /\ Len(call.t.targets) = 4

----------------------------------------------------------------------------
(* UTF-8 *)

\* the Unicode number of a well-formed character
UnicodeNumber(str) ==
    IF Len(str) = 1 THEN str[1]
    ELSE IF Len(str) = 2 THEN (str[1] % 32) * 64 + (str[2] % 64)
    ELSE IF Len(str) = 3 THEN (str[1] % 16) * 4096 + (str[2] % 64) * 64 + (str[3] % 64)
    ELSE (str[1] % 8) * 262144 + (str[2] % 64) * 4096 + (str[3] % 64) * 64 + (str[4] % 64)

\* the number of bytes UTF-8 needs for a Unicode number
MinimalSize(number) ==
    IF number < 128 THEN 1 ELSE IF number < 2048 THEN 2 ELSE IF number < 65536 THEN 3 ELSE 4

\* C25: the codepoint decoded from a well-formed character of 1 to 4 bytes
\* is encoded as the bytes of that character, which are as many as UTF-8
\* needs for it, with the terminator right after them, and the encoding
\* decodes to the same codepoint.
C25_EncodeDecodeRoundTrip ==
    /\ call.op = "FC_GetUTF8FromCodepoint"
         => /\ call.t.out.utf8 = call.t.in.text
            /\ Len(call.t.out.utf8) = MinimalSize(UnicodeNumber(call.t.in.text))
    /\ Len(call.t.out.codepoints) = 2
         => call.t.out.codepoints[2] = call.t.out.codepoints[1]

\* the round trip of a character of four bytes
C25_Witness ==
    /\ Len(call.t.out.codepoints) = 2
    /\ Len(call.t.in.text) = 4
    /\ Len(call.t.out.utf8) = 4

\* byte k of a 32-bit value, byte 0 the least significant
ByteOf(value, k) ==
    (value \div (IF k = 0 THEN 1 ELSE IF k = 1 THEN 256 ELSE IF k = 2 THEN 65536
                 ELSE 16777216)) % 256

----------------------------------------------------------------------------
(* Null arguments *)

\* C27: a public operation called with a null font or a null text does not
\* read through the null pointer, and returns zero or an empty rectangle.
C27_NullArgumentsAreHandled ==
    (call.op \in PublicCalls /\ (call.t.in.nullFont \/ call.t.in.nullText))
      => /\ ~call.t.ub
         /\ call.arg = 0
         /\ call.t.out.dirtyRect.w = 0
         /\ call.t.out.dirtyRect.h = 0

----------------------------------------------------------------------------
(* The rasterizer handles *)

Handles == call.t.handles

\* C28: the font closes no handle but one it opened itself, so never a handle
\* the caller supplied; a handle it opened it closes at most once; and when
\* the font is freed every handle it opened as an owned source was closed.
C28_ClosesOnlyItsOwnHandles ==
    /\ \A h \in DOMAIN Handles :
         /\ Handles[h].by = "caller" => Handles[h].closes = 0
         /\ Handles[h].closes <= 1
    /\ call.op = "FC_FreeFont"
         => \A h \in DOMAIN Handles :
              (Handles[h].by = "font" /\ Handles[h].own_rwops # 0)
                => Handles[h].closes = 1

----------------------------------------------------------------------------
(* The width of a TAB *)

\* how far a draw of the one character at scale 1 with the font as it is
\* moves the cursor, the letter spacing not counted
DrawnWidth(text) ==
    FC_RenderLeft([f |-> font, e |-> FullEnv, t |-> EmptyTrace], 0, 0,
                  [x |-> 1, y |-> 1], text).destX - font.letterSpacing

\* C29: once a TAB and a space are cached, a TAB measures, and moves the
\* cursor of a draw by, the tab width set now times the width of the space.
C29_TabWidthIsCurrent ==
    (InMap(font.glyphs, TAB) /\ InMap(font.glyphs, SPACE))
      => /\ Measure(<<TAB>>) = fc_tab_width * Measure(<<SPACE>>)
         /\ DrawnWidth(<<TAB>>) = fc_tab_width * DrawnWidth(<<SPACE>>)

----------------------------------------------------------------------------
(* Clearing and reloading *)

\* the last operation was a load that went through
Loaded == call.op \in {"FC_LoadFontFromTTF", "FC_LoadFont_RW"} /\ call.ok

\* C30: after FC_ClearFont the glyph map is empty, the font has no cache
\* level and the cursor is at the margin of level 0; after a load that went
\* through every glyph in the map was packed by that load, so none from
\* before is found; and no other operation lowers the number of cache levels.
C30_ClearForgetsGlyphs ==
    /\ call.op = "FC_ClearFont"
         => /\ Nodes(font.glyphs) = {}
            /\ font.glyph_cache_count = 0
            /\ font.last_glyph.cache_level = 0
            /\ font.last_glyph.rect.x = FC_CACHE_PADDING
            /\ font.last_glyph.rect.y = FC_CACHE_PADDING
    /\ Loaded
         => \A n \in Nodes(font.glyphs) :
              \E i \in DOMAIN call.t.packed :
                 /\ call.t.packed[i].key = n.node.key
                 /\ call.t.packed[i].value = n.node.value
    /\ (call.op # "FC_ClearFont" /\ ~Loaded)
         => font.glyph_cache_count >= call.t.levels0

\* a font of several cache levels in which a TAB had been cached was loaded
\* again with a loading string without TAB: the TAB is not found
C30_Witness ==
    /\ Loaded
    /\ call.t.levels0 > 1
    /\ Nodes(font.glyphs) # {}
    /\ ~InMap(font.glyphs, TAB)
    /\ \E h \in DOMAIN Handles : Handles[h].closes > 0

----------------------------------------------------------------------------
(* The cache-level array *)

\* slots 0 .. n - 1 of the array hold textures that were installed
LevelsInstalled(f, n) == \A k \in 0 .. n - 1 : SlotInstalled(f, k)

\* C31: FC_SetGlyphCacheLevel at the index equal to the number of levels
\* appends (returns 1, one level more), at an index below it replaces that
\* level (returns 1, as many levels), and at any other index returns 0 and
\* leaves the font as it was; it writes no slot outside the array, and the
\* slots below the number of levels hold installed textures afterwards.
C31_LevelsAddedInSequence ==
    [][call'.op = "FC_SetGlyphCacheLevel"
         => /\ ~call'.t.ub
            /\ call'.arg = font.glyph_cache_count
                 => /\ call'.ok
                    /\ font'.glyph_cache_count = font.glyph_cache_count + 1
                    /\ font'.glyph_cache[call'.arg + 1] = call'.t.out.texture
            /\ (call'.arg >= 0 /\ call'.arg < font.glyph_cache_count)
                 => /\ call'.ok
                    /\ font'.glyph_cache_count = font.glyph_cache_count
                    /\ font'.glyph_cache[call'.arg + 1] = call'.t.out.texture
            /\ (call'.arg < 0 \/ call'.arg > font.glyph_cache_count)
                 => /\ ~call'.ok
                    /\ font' = font
            /\ LevelsInstalled(font', font'.glyph_cache_count)]_vars

\* C34: FC_GetGlyphCacheLevel returns the installed level for an index below
\* the number of levels and nullptr for every other index, and reads no slot
\* that was never written.
C34_LevelReadInRange ==
    call.op = "FC_GetGlyphCacheLevel"
      => /\ ~call.t.ub
         /\ (call.arg >= 0 /\ call.arg < font.glyph_cache_count)
              => /\ call.t.out.texture = font.glyph_cache[call.arg + 1]
                 /\ call.t.out.texture.kind = "tex"
         /\ (call.arg < 0 \/ call.arg >= font.glyph_cache_count)
              => call.t.out.texture = NullTex

----------------------------------------------------------------------------
(* The packer's rectangles and levels *)

\* the rectangle lies inside a level of this size, clear of the margin at
\* the left and at the top
InsideLevel(rect, maxWidth, maxHeight) ==
    /\ rect.x >= FC_CACHE_PADDING
    /\ rect.y >= FC_CACHE_PADDING
    /\ rect.x + rect.w <= maxWidth
    /\ rect.y + rect.h <= maxHeight

\* C32: every rectangle a pack attempt records lies inside the level whose
\* size the attempt was given, whether the glyph was placed in the current
\* row or moved to a new row, and whatever its width (a TAB's included).
C32_PackedRectsInsideLevel ==
    \A i \in DOMAIN call.t.packLog :
       call.t.packLog[i].ok
         => InsideLevel(call.t.packLog[i].glyph.rect,
                        call.t.packLog[i].maxWidth, call.t.packLog[i].maxHeight)

\* C33: when a load or a lookup on a loaded font has returned, the packing
\* cursor and every glyph the packer recorded are on a cache level that
\* exists: their level index is below the number of cache levels.
C33_LevelIndexesExist ==
    (call.op \in {"FC_LoadFontFromTTF", "FC_GetGlyphData"} /\ font.ttf_source # 0)
      => /\ font.last_glyph.cache_level < font.glyph_cache_count
         /\ \A i \in DOMAIN packed :
              packed[i].value.cache_level < font.glyph_cache_count

----------------------------------------------------------------------------
(* Glyphs recorded more than once *)

\* the places of the nodes inserted for the codepoint, in the order of insertion
InsertsOf(codepoint) == {i \in DOMAIN packed : packed[i].key = codepoint}

\* the glyph inserted first for the codepoint
FirstInserted(codepoint) ==
    packed[CHOOSE i \in InsertsOf(codepoint) : \A j \in InsertsOf(codepoint) : i <= j].value

\* C35: a codepoint that was inserted into the glyph map, once or more often,
\* by FC_SetGlyphData or by the packer, is found with the glyph inserted
\* first, and FC_GetGlyphData returns that glyph for it.
C35_FirstInsertedIsFound ==
    /\ \A c \in DupKeys :
         InsertsOf(c) # {}
           => /\ FC_MapHas(font.glyphs, c)
              /\ FC_MapFind(font.glyphs, c) = FirstInserted(c)
    /\ (call.op = "FC_GetGlyphData" /\ InsertsOf(call.arg) # {})
         => /\ call.ok
            /\ call.glyph = FirstInserted(call.arg)

\* a codepoint with nodes of different glyphs was looked up
C35_Witness ==
    /\ call.op = "FC_GetGlyphData"
    /\ call.ok
    /\ \E i, j \in InsertsOf(call.arg) :
         i < j /\ packed[i].value # packed[j].value /\ call.glyph = packed[i].value

----------------------------------------------------------------------------
(* Wrapped text in the caller's buffer *)

\* C36: FC_GetWrappedText writes at most max_result_size bytes to the result
\* buffer, the terminator included, and returns the number of bytes it wrote
\* before the terminator.
C36_WrappedTextFitsBuffer ==
    call.op = "FC_GetWrappedText"
      => /\ Len(call.t.out.result) <= call.arg
         /\ call.t.out.result # <<>>
              => /\ call.t.out.ret = Len(call.t.out.result) - 1
                 /\ call.t.out.result[Len(call.t.out.result)] = 0
         /\ call.t.out.result = <<>> => call.t.out.ret = 0

----------------------------------------------------------------------------
(* Measuring and drawing *)

\* the last operation drew a text of one line from x = 0 at scale 1, with a
\* font that has a cache level
DrewOneLine ==
    /\ call.op = "FC_RenderLeft"
    /\ call.t.in.scale = [x |-> 1, y |-> 1]
    /\ \A i \in DOMAIN call.t.in.text : call.t.in.text[i] # NEWLINE
    /\ font.glyph_cache_count > 0

\* what FC_GetWidth returns for the text with the font as it is
MeasuredWidth(text) ==
    FC_GetWidth([f |-> font, e |-> FullEnv, t |-> EmptyTrace], text).width

\* C37: the draw cursor of FC_RenderLeft, for a text of one line at scale 1,
\* advances by what FC_GetWidth measures for the text, whatever the letter
\* spacing is.
C37_WidthIsDrawAdvance ==
    DrewOneLine => call.t.out.destX = MeasuredWidth(call.t.in.text)

----------------------------------------------------------------------------
(* Draws in a colour *)

\* C38: every glyph a draw in a colour renders is taken from a cache level
\* whose colour modulation is that colour, also a level the cache grew by
\* during the draw.
C38_GlyphsDrawnInColor ==
    call.op = "FC_DrawColor"
      => \A i \in DOMAIN call.t.draws : call.t.draws[i].mod = call.t.in.color

----------------------------------------------------------------------------
(* Wrapping keeps every byte *)

\* the bytes of lines k..n, one after the other
RECURSIVE LineBytes(_, _, _)
LineBytes(lines, k, n) ==
    IF k > n THEN <<>> ELSE lines[k].value \o LineBytes(lines, k + 1, n)

\* the lines from number k on are, group after group, the paragraphs from
\* number i on: each paragraph is spelled by one or more lines in a row
RECURSIVE LinesSpell(_, _, _, _)
LinesSpell(lines, k, paragraphs, i) ==
    IF i > Len(paragraphs) THEN k > Len(lines)
    ELSE \E n \in k..Len(lines) :
           /\ LineBytes(lines, k, n) = paragraphs[i]
           /\ LinesSpell(lines, n + 1, paragraphs, i + 1)

\* C39: the lines FC_GetBufferFitToColumn emits for a paragraph, one after
\* the other, are the paragraph byte for byte, and when the newlines are
\* kept all lines together are the whole formatted text
C39_WrapIsLossless ==
    WrapDone =>
      /\ LinesSpell(call.t.out.lines, 1,
                    IF call.t.in.keep_newlines
                    THEN FC_ExplodeAndKeep(FC_EXTRACT_VARARGS(call.t.in.text), NEWLINE)
                    ELSE FC_Explode(FC_EXTRACT_VARARGS(call.t.in.text), NEWLINE), 1)
      /\ call.t.in.keep_newlines =>
           LineBytes(call.t.out.lines, 1, Len(call.t.out.lines))
             = FC_EXTRACT_VARARGS(call.t.in.text)

\* a text of two paragraphs with its newline kept, the second paragraph put
\* on more than one line
C39_Witness ==
    /\ WrapDone /\ call.t.in.keep_newlines
    /\ HasOf(call.t.in.text, {NEWLINE})
    /\ Len(call.t.out.lines) >= 3
    /\ \E i \in 1..Len(call.t.out.lines) :
         call.t.out.lines[i].wrapped /\ Head(call.t.out.lines[i].value) = NEWLINE

----------------------------------------------------------------------------
(* The cursor of a text loop *)

IterDone == call.op \in {"U8_strlen", "FC_GetWidth", "FC_RenderLeft"}

\* the text the loop of the operation just done went through
IterBuffer ==
    IF call.op = "FC_GetWidth" THEN FC_EXTRACT_VARARGS(call.t.in.text)
    ELSE call.t.in.text

\* the character the cursor stood on at position pos lies before the
\* terminator with all its bytes
WholeCharacterAt(text, pos) == pos + U8_charsize(text, pos) - 1 <= Len(text)

\* C40: U8_strlen and the loops of FC_GetWidth and FC_RenderLeft step over
\* one whole character at a time and stop at the terminator, for every byte
\* string: the cursor never stands behind the terminator
C40_CursorStopsAtTerminator ==
    IterDone =>
      /\ ~call.t.ub
      /\ \A k \in 1..Len(call.t.chars) :
           WholeCharacterAt(IterBuffer, call.t.chars[k].pos)

====
